---- MODULE Spec2Model ----
(***************************************************************************)
(* Event reconciliation and scoring engine of cal_ai:                      *)
(*   tests/regression/tolerance.py  (cost model, Hungarian solver,         *)
(*                                   assertion adapter)                    *)
(*   src/cal_ai/benchmark/scoring.py (pair classifier, score_sample,       *)
(*                                   precision / recall / F1)              *)
(*                                                                         *)
(* Conventions of the model                                                *)
(*   - Python's None is NULL.                                              *)
(*   - An ISO 8601 string is a TLA+ string; datetime.fromisoformat is the  *)
(*     table fromisoformat below (minutes since 2026-02-20T00:00:00, or a  *)
(*     ValueError for a string that is no ISO timestamp).                  *)
(*   - rapidfuzz.fuzz.token_set_ratio is the table token_set_ratio below,  *)
(*     computed by hand for the titles of the model; the titles are chosen *)
(*     so that every ratio is a whole number, which keeps every cost a     *)
(*     float that is an exact integer.                                     *)
(*   - Python floats that are ratios of counts (precision, recall, F1) are *)
(*     exact fractions <<numerator, denominator>> in lowest terms.         *)
(*   - An `int | None` value is <<>> for None and <<k>> for the integer k.  *)
(*   - Python list indices are 0-based; TLA+ sequences are 1-based.  The   *)
(*     pairs returned by _hungarian_assignment keep the 0-based (row, col) *)
(*     of the code; the events they denote are at row + 1 and col + 1.     *)
(***************************************************************************)
EXTENDS Integers, Sequences, FiniteSets, TLC

NULL == "None"

\* ------------------------------------------------------------------------
\* Bounds of the model
\* ------------------------------------------------------------------------
MaxRows == 3
MaxCols == 3
MaxActual == 2
MaxExpected == 2
MaxCount == 4
MaxAssertEvents == 3
MaxSamples == 3

\* ------------------------------------------------------------------------
\* Small helpers
\* ------------------------------------------------------------------------
Abs(x) == IF x < 0 THEN 0 - x ELSE x

Min2(a, b) == IF a <= b THEN a ELSE b

Max2(a, b) == IF a >= b THEN a ELSE b

RECURSIVE Gcd(_, _)
Gcd(a, b) == IF b = 0 THEN a ELSE Gcd(b, a % b)

\* The float n / d of two non-negative integers, d > 0, as an exact fraction.
Frac(n, d) == <<n \div Gcd(n, d), d \div Gcd(n, d)>>

\* Sequences of length 0..k over the set S.
SeqsUpTo(S, k) == UNION {[1..n -> S] : n \in 0..k}

\* The elements of a sequence as a bag (multiset).
RECURSIVE SeqToBag(_)
SeqToBag(s) ==
    IF s = <<>> THEN <<>>
    ELSE LET rest == SeqToBag(Tail(s))
             h == Head(s)
         IN IF h \in DOMAIN rest
            THEN [x \in DOMAIN rest |-> IF x = h THEN rest[x] + 1 ELSE rest[x]]
            ELSE [x \in DOMAIN rest \cup {h} |-> IF x = h THEN 1 ELSE rest[x]]

\* ------------------------------------------------------------------------
\* Tolerance thresholds (tolerance.py THRESHOLDS); time_tolerance in minutes
\* ------------------------------------------------------------------------
_TOLERANCE_LEVELS == {"strict", "moderate", "relaxed"}

THRESHOLDS ==
    [level \in _TOLERANCE_LEVELS |->
        CASE level = "strict" ->
                [event_count_tolerance |-> 0, time_tolerance |-> 30,
                 title_ratio_min |-> 95]
          [] level = "moderate" ->
                [event_count_tolerance |-> 1, time_tolerance |-> 2 * 60,
                 title_ratio_min |-> 80]
          [] level = "relaxed" ->
                [event_count_tolerance |-> 2, time_tolerance |-> 24 * 60,
                 title_ratio_min |-> 60]]

\* ------------------------------------------------------------------------
\* External capabilities, as tables over the values of the model
\* ------------------------------------------------------------------------
\* datetime.fromisoformat: [ok |-> TRUE, minutes |-> m, aware |-> b] for an
\* ISO timestamp (aware: it carries a UTC offset, minutes are then UTC),
\* [ok |-> FALSE] where Python raises ValueError.
fromisoformat(s) ==
    CASE s = "2026-02-20T12:00:00" -> [ok |-> TRUE, minutes |-> 720, aware |-> FALSE]
      [] s = "2026-02-20T12:30:00" -> [ok |-> TRUE, minutes |-> 750, aware |-> FALSE]
      [] s = "2026-02-20T12:31:00" -> [ok |-> TRUE, minutes |-> 751, aware |-> FALSE]
      [] s = "2026-02-20T14:00:00" -> [ok |-> TRUE, minutes |-> 840, aware |-> FALSE]
      [] s = "2026-02-20T14:01:00" -> [ok |-> TRUE, minutes |-> 841, aware |-> FALSE]
      [] s = "2026-02-21T12:00:00" -> [ok |-> TRUE, minutes |-> 2160, aware |-> FALSE]
      [] s = "2026-02-21T12:01:00" -> [ok |-> TRUE, minutes |-> 2161, aware |-> FALSE]
      [] s = "2026-02-20T12:00:00+00:00" -> [ok |-> TRUE, minutes |-> 720, aware |-> TRUE]
      [] s = "2026-02-20T14:00:00+00:00" -> [ok |-> TRUE, minutes |-> 840, aware |-> TRUE]
      [] OTHER -> [ok |-> FALSE, minutes |-> 0, aware |-> FALSE]

\* datetime.__sub__ on the parsed values of two timestamps: Python raises
\* TypeError ("can't subtract offset-naive and offset-aware datetimes") when
\* exactly one of them carries a UTC offset.  The subtraction is reached when
\* both strings are present and parse (tolerance.py 105, scoring.py 274); no
\* handler encloses it.
SubtractionRaises(actual_iso, expected_iso) ==
    /\ actual_iso # NULL
    /\ expected_iso # NULL
    /\ fromisoformat(actual_iso).ok
    /\ fromisoformat(expected_iso).ok
    /\ fromisoformat(actual_iso).aware # fromisoformat(expected_iso).aware

\* str.strip().lower()
strip_lower(s) ==
    CASE s = "Lunch" -> "lunch"
      [] s = "lunch " -> "lunch"
      [] s = "Lunch Break" -> "lunch break"
      [] s = "Gym" -> "gym"
      [] OTHER -> s

\* rapidfuzz.fuzz.token_set_ratio (no preprocessing: case-sensitive, tokens
\* split on whitespace).  100 when one token set contains the other; with
\* disjoint token sets 100 * (1 - indel_distance / total length) of the
\* sorted, joined tokens; 0 when either string is empty.
\*   "Lunch" / "lunch"        indel 2 of 10 -> 80
\*   "lunch" / "Break Lunch"  indel 8 of 16 -> 50
\*   "Gym" shares no character with the other titles -> 0
token_set_ratio(a, b) ==
    LET p == {a, b}
    IN CASE a = "" \/ b = "" -> 0
         [] a = b -> 100
         [] p = {"Lunch", "lunch "} -> 80
         [] p = {"Lunch", "Lunch Break"} -> 100
         [] p = {"lunch ", "Lunch Break"} -> 50
         [] OTHER -> 0

\* ------------------------------------------------------------------------
\* Cost model (tolerance.py 71-119)
\* ------------------------------------------------------------------------
\* Mutant of _action_distance: a penalty below the largest title distance.
_action_distance_Below(actual, expected) == IF actual = expected THEN 0 ELSE 50

_action_distance(actual, expected) == IF actual = expected THEN 0 ELSE 1000

_title_distance(actual, expected) == 100 - token_set_ratio(actual, expected)

\* Defined where the subtraction is (see SubtractionRaises).
_time_distance(actual_iso, expected_iso) ==
    IF actual_iso = NULL /\ expected_iso = NULL THEN 0
    ELSE IF actual_iso = NULL \/ expected_iso = NULL THEN 10000
    ELSE LET actual_dt == fromisoformat(actual_iso)
             expected_dt == fromisoformat(expected_iso)
         IN IF ~actual_dt.ok \/ ~expected_dt.ok THEN 10000
            ELSE Abs(actual_dt.minutes - expected_dt.minutes)

_event_pair_distance(actual, expected) ==
    _action_distance(actual.action, expected.action)
    + _title_distance(actual.title, expected.title)
    + _time_distance(actual.start_time, expected.start_time)

\* ------------------------------------------------------------------------
\* Minimum-cost bipartite matching (tolerance.py 127-210)
\* ------------------------------------------------------------------------
\* The floats of the solver reach several times pad_cost = 1e9, beyond the
\* integers TLC computes with, so a float x of the solver is the pair <<k, r>>
\* with x = k * pad_cost + r.  Every r is a sum or difference of a few real
\* costs, far below pad_cost, so the arithmetic below is exact.
pad_cost == 1000000000

Num(x) == <<0, x>>

Pad == <<1, 0>>

\* float("inf")
INF == <<1000000, 0>>

Plus(a, b) == IF a = INF \/ b = INF THEN INF ELSE <<a[1] + b[1], a[2] + b[2]>>

Minus(a, b) == IF a = INF THEN INF ELSE <<a[1] - b[1], a[2] - b[2]>>

\* a < b, that is (b.k - a.k) * pad_cost + (b.r - a.r) > 0
Less(a, b) ==
    LET dk == b[1] - a[1]
        dr == b[2] - a[2]
    IN CASE dk = 0 -> dr > 0
         [] dk = 1 -> dr > 0 - pad_cost
         [] dk = 0 - 1 -> dr > pad_cost
         [] OTHER -> dk > 0

\* matrix[i][j] of lines 155-158, 1-based: the n x n padded copy.
PadMatrix(cost_matrix, n) ==
    [i \in 1..n |-> [j \in 1..n |->
        IF i <= Len(cost_matrix) /\ j <= Len(cost_matrix[1])
        THEN Num(cost_matrix[i][j]) ELSE Pad]]

\* Python's list[j] for j = -1 reads the last element.
PyIdx(j, n) == IF j < 0 THEN j + n + 1 ELSE j

\* A Python list [x] * (n + 1), indexed 0..n.
RECURSIVE Filled(_, _)
Filled(n, x) == IF n = 0 THEN (0 :> x) ELSE Filled(n - 1, x) @@ (n :> x)

\* State of the solver before the first row iteration (lines 161-164), with
\* the per-row arrays of lines 168-170.
HungarianStart(n) ==
    [u |-> Filled(n, Num(0)), v |-> Filled(n, Num(0)),
     p |-> Filled(n, 0), way |-> Filled(n, 0),
     min_v |-> Filled(n, INF), used |-> Filled(n, FALSE),
     j0 |-> 0, delta |-> INF, j1 |-> 0 - 1]

\* Mutant of ReducedCost: the potentials are left out of the reduced cost.
ReducedCost_NoPotentials(matrix, h, i0, j) == matrix[i0][j]

\* Line 180: cur = matrix[i0 - 1][j - 1] - u[i0] - v[j].
ReducedCost(matrix, h, i0, j) == Minus(Minus(matrix[i0][j], h.u[i0]), h.v[j])

\* Lines 179-186: the body of `for j in range(1, n + 1)` for an unused
\* column j.
ScanColumn(matrix, h, i0, j) ==
    LET cur == ReducedCost(matrix, h, i0, j)
        h1 == IF Less(cur, h.min_v[j])
              THEN [h EXCEPT !.min_v[j] = cur, !.way[j] = h.j0]
              ELSE h
    IN IF Less(h1.min_v[j], h1.delta)
       THEN [h1 EXCEPT !.delta = h1.min_v[j], !.j1 = j]
       ELSE h1

\* Lines 178-186: `for j in range(1, n + 1)`, from column j on.  (The
\* state h is bound as a value, hv, so that it is computed once.)
RECURSIVE ScanColumns(_, _, _, _, _)
ScanColumns(matrix, n, h, i0, j) ==
    CHOOSE r \in
        { IF j > n THEN hv
          ELSE IF hv.used[j] THEN ScanColumns(matrix, n, hv, i0, j + 1)
          ELSE ScanColumns(matrix, n, ScanColumn(matrix, hv, i0, j), i0, j + 1)
          : hv \in {h} } : TRUE

\* Lines 188-193: `for j in range(n + 1)`, from column j on.
RECURSIVE UpdatePotentials(_, _, _)
UpdatePotentials(n, h, j) ==
    CHOOSE r \in
        { IF j > n THEN hv
          ELSE UpdatePotentials(n,
                  IF hv.used[j]
                  THEN [hv EXCEPT !.u[hv.p[j]] = Plus(@, hv.delta),
                                  !.v[j] = Minus(@, hv.delta)]
                  ELSE [hv EXCEPT !.min_v[j] = Minus(@, hv.delta)],
                  j + 1)
          : hv \in {h} } : TRUE

\* Mutant of HungarianPass: the column the pass starts from is not marked
\* used.
HungarianPass_NoMark(matrix, n, h) ==
    LET h0 == [h EXCEPT !.delta = INF, !.j1 = 0 - 1]
        h1 == ScanColumns(matrix, n, h0, h0.p[h0.j0], 1)
        h2 == UpdatePotentials(n, h1, 0)
    IN [h2 EXCEPT !.j0 = h2.j1]

\* One pass of the `while True` body, lines 173-195.
HungarianPass(matrix, n, h) ==
    LET h0 == [h EXCEPT !.used[h.j0] = TRUE, !.delta = INF, !.j1 = 0 - 1]
        h1 == ScanColumns(matrix, n, h0, h0.p[h0.j0], 1)
    IN CHOOSE r \in {[h2 EXCEPT !.j0 = h2.j1] :
                        h2 \in {UpdatePotentials(n, h1, 0)}} : TRUE

\* The `while True` loop, lines 172-197: passes until p[j0] == 0.
RECURSIVE HungarianSearch(_, _, _)
HungarianSearch(matrix, n, h) ==
    LET h1 == HungarianPass(matrix, n, h)
    IN IF h1.p[PyIdx(h1.j0, n)] = 0 THEN h1 ELSE HungarianSearch(matrix, n, h1)

\* Mutant of HungarianBacktrack: every column of the path receives the new
\* row p[0] instead of the row of its predecessor on the path.
RECURSIVE HungarianBacktrack_NewRow(_)
HungarianBacktrack_NewRow(h) ==
    IF h.j0 = 0 THEN h
    ELSE HungarianBacktrack_NewRow([h EXCEPT !.p[h.j0] = h.p[0],
                                             !.j0 = h.way[h.j0]])

\* The `while j0` loop, lines 200-202.
RECURSIVE HungarianBacktrack(_)
HungarianBacktrack(h) ==
    IF h.j0 = 0 THEN h
    ELSE HungarianBacktrack([h EXCEPT !.p[h.j0] = h.p[h.way[h.j0]],
                                      !.j0 = h.way[h.j0]])

\* One iteration of `for i in range(1, n + 1)`, lines 166-202.
HungarianRow(matrix, n, h, i) ==
    HungarianBacktrack(HungarianSearch(matrix, n,
        [h EXCEPT !.p[0] = i, !.j0 = 0,
                  !.min_v = Filled(n, INF),
                  !.used = Filled(n, FALSE)]))

RECURSIVE HungarianRows(_, _, _, _)
HungarianRows(matrix, n, h, i) ==
    IF i > n THEN h
    ELSE HungarianRows(matrix, n, HungarianRow(matrix, n, h, i), i + 1)

\* Mutant of ExtractAssignment: the padded rows and columns are not filtered.
RECURSIVE ExtractAssignment_NoFilter(_, _, _, _, _)
ExtractAssignment_NoFilter(p, n, n_rows, n_cols, j) ==
    IF j > n THEN <<>>
    ELSE (IF p[j] # 0 THEN <<<<p[j] - 1, j - 1>>>> ELSE <<>>)
         \o ExtractAssignment_NoFilter(p, n, n_rows, n_cols, j + 1)

\* Lines 205-208: the pairs (p[j] - 1, j - 1) inside the original matrix,
\* in ascending column order.
RECURSIVE ExtractAssignment(_, _, _, _, _)
ExtractAssignment(p, n, n_rows, n_cols, j) ==
    IF j > n THEN <<>>
    ELSE (IF p[j] # 0 /\ p[j] - 1 < n_rows /\ j - 1 < n_cols
          THEN <<<<p[j] - 1, j - 1>>>> ELSE <<>>)
         \o ExtractAssignment(p, n, n_rows, n_cols, j + 1)

_hungarian_assignment(cost_matrix) ==
    IF cost_matrix = <<>> \/ cost_matrix[1] = <<>> THEN <<>>
    ELSE LET n_rows == Len(cost_matrix)
             n_cols == Len(cost_matrix[1])
             n == Max2(n_rows, n_cols)
             matrix == PadMatrix(cost_matrix, n)
             h == HungarianRows(matrix, n, HungarianStart(n), 1)
         IN ExtractAssignment(h.p, n, n_rows, n_cols, 1)

\* Lines 237-241: rows = actual, cols = expected.
CostMatrix(actual_events, expected_events) ==
    [i \in 1..Len(actual_events) |->
        [j \in 1..Len(expected_events) |->
            _event_pair_distance(actual_events[i], expected_events[j])]]

\* Lines 237-241 compute the distance of every (actual, expected) pair: the
\* TypeError of any of them leaves _best_match_pairs.
BestMatchPairsRaises(actual_events, expected_events) ==
    /\ actual_events # <<>>
    /\ expected_events # <<>>
    /\ \E i \in 1..Len(actual_events) : \E j \in 1..Len(expected_events) :
          SubtractionRaises(actual_events[i].start_time,
                            expected_events[j].start_time)

\* Mutant of _best_match_pairs: events are paired by position, not by cost.
_best_match_pairs_Zip(actual_events, expected_events) ==
    [k \in 1..Min2(Len(actual_events), Len(expected_events)) |->
        <<actual_events[k], expected_events[k],
          _event_pair_distance(actual_events[k], expected_events[k])>>]

\* tolerance.py 213-252: the matched (actual, expected, distance) triples.
_best_match_pairs(actual_events, expected_events) ==
    IF actual_events = <<>> \/ expected_events = <<>> THEN <<>>
    ELSE LET cost_matrix == CostMatrix(actual_events, expected_events)
             assignment == _hungarian_assignment(cost_matrix)
         IN [k \in 1..Len(assignment) |->
                <<actual_events[assignment[k][1] + 1],
                  expected_events[assignment[k][2] + 1],
                  cost_matrix[assignment[k][1] + 1][assignment[k][2] + 1]>>]

\* ------------------------------------------------------------------------
\* Pair classifier and precision / recall / F1 (scoring.py 139-281)
\* ------------------------------------------------------------------------
One == <<1, 1>>

Zero == <<0, 1>>

\* Mutant of _compute_prf: precision defaults to 0.0 when nothing was predicted.
_compute_prf_ZeroDefault(tp, fp, fn) ==
    IF tp = 0 /\ fp = 0 /\ fn = 0 THEN <<One, One, One>>
    ELSE LET precision == IF tp + fp > 0 THEN Frac(tp, tp + fp) ELSE Zero
             recall == IF tp + fn > 0 THEN Frac(tp, tp + fn) ELSE One
             f1 == IF precision[1] * recall[2] + recall[1] * precision[2] > 0
                   THEN Frac(2 * precision[1] * recall[1],
                             precision[1] * recall[2] + recall[1] * precision[2])
                   ELSE Zero
         IN <<precision, recall, f1>>

\* scoring.py 139-173: (precision, recall, f1).  With precision = a/b and
\* recall = c/d, 2PR / (P + R) = 2ac / (ad + cb).
_compute_prf(tp, fp, fn) ==
    IF tp = 0 /\ fp = 0 /\ fn = 0 THEN <<One, One, One>>
    ELSE LET precision == IF tp + fp > 0 THEN Frac(tp, tp + fp) ELSE One
             recall == IF tp + fn > 0 THEN Frac(tp, tp + fn) ELSE One
             f1 == IF precision[1] * recall[2] + recall[1] * precision[2] > 0
                   THEN Frac(2 * precision[1] * recall[1],
                             precision[1] * recall[2] + recall[1] * precision[2])
                   ELSE Zero
         IN <<precision, recall, f1>>

\* A mismatch reason is <<label, kind>>; the values the code interpolates
\* into the message are left out.  A function that returns a reason or None
\* returns the list of its reasons here: <<reason>> or <<>>.
\* Mutant of _check_time_tolerance: the two None tests are swapped.
_check_time_tolerance_ActualFirst(actual_iso, expected_iso, tolerance, label) ==
    IF actual_iso = NULL THEN <<<<label, "expected but got None">>>>
    ELSE IF expected_iso = NULL THEN <<>>
    ELSE LET actual_dt == fromisoformat(actual_iso)
             expected_dt == fromisoformat(expected_iso)
         IN IF ~actual_dt.ok THEN <<<<label, "cannot parse actual">>>>
            ELSE IF ~expected_dt.ok THEN <<<<label, "cannot parse expected">>>>
            ELSE IF Abs(actual_dt.minutes - expected_dt.minutes) > tolerance
                 THEN <<<<label, "difference exceeds tolerance">>>>
                 ELSE <<>>

\* scoring.py 239-281: <<>> when within tolerance, else the reason.
_check_time_tolerance(actual_iso, expected_iso, tolerance, label) ==
    IF expected_iso = NULL THEN <<>>
    ELSE IF actual_iso = NULL THEN <<<<label, "expected but got None">>>>
    ELSE LET actual_dt == fromisoformat(actual_iso)
             expected_dt == fromisoformat(expected_iso)
         IN IF ~actual_dt.ok THEN <<<<label, "cannot parse actual">>>>
            ELSE IF ~expected_dt.ok THEN <<<<label, "cannot parse expected">>>>
            ELSE IF Abs(actual_dt.minutes - expected_dt.minutes) > tolerance
                 THEN <<<<label, "difference exceeds tolerance">>>>
                 ELSE <<>>

\* Mutant of _check_event_match: the checks go on after an action mismatch.
_check_event_match_NoShortCircuit(actual, expected, tolerance) ==
    LET thresholds == THRESHOLDS[tolerance]
    IN (IF actual.action # expected.action
        THEN <<<<"action", "expected, got">>>> ELSE <<>>)
       \o (IF tolerance = "strict"
           THEN (IF strip_lower(actual.title) # strip_lower(expected.title)
                 THEN <<<<"title", "strict exact">>>> ELSE <<>>)
           ELSE (IF token_set_ratio(actual.title, expected.title)
                      < thresholds.title_ratio_min
                 THEN <<<<"title", "ratio below title_ratio_min">>>> ELSE <<>>))
       \o _check_time_tolerance(actual.start_time, expected.start_time,
                                 thresholds.time_tolerance, "start_time")
       \o _check_time_tolerance(actual.end_time, expected.end_time,
                                 thresholds.time_tolerance, "end_time")

\* scoring.py 176-236: the list of mismatch reasons, empty for a TP.
_check_event_match(actual, expected, tolerance) ==
    LET thresholds == THRESHOLDS[tolerance]
    IN IF actual.action # expected.action
       THEN <<<<"action", "expected, got">>>>
       ELSE (IF tolerance = "strict"
             THEN (IF strip_lower(actual.title) # strip_lower(expected.title)
                   THEN <<<<"title", "strict exact">>>> ELSE <<>>)
             ELSE (IF token_set_ratio(actual.title, expected.title)
                        < thresholds.title_ratio_min
                   THEN <<<<"title", "ratio below title_ratio_min">>>> ELSE <<>>))
            \o _check_time_tolerance(actual.start_time, expected.start_time,
                                      thresholds.time_tolerance, "start_time")
            \o _check_time_tolerance(actual.end_time, expected.end_time,
                                      thresholds.time_tolerance, "end_time")

\* scoring.py 198-234: after an equal action, the start_time and end_time
\* checks subtract; their TypeError leaves _check_event_match.
CheckEventMatchRaises(actual, expected) ==
    /\ actual.action = expected.action
    /\ \/ SubtractionRaises(actual.start_time, expected.start_time)
       \/ SubtractionRaises(actual.end_time, expected.end_time)

\* ------------------------------------------------------------------------
\* score_sample (scoring.py 289-427)
\* ------------------------------------------------------------------------
\* None in an event-typed field
NoEvent == [none |-> TRUE]

EventMatchDetail(classification, actual_event, expected_event, mismatch_reasons) ==
    [classification |-> classification, actual_event |-> actual_event,
     expected_event |-> expected_event, mismatch_reasons |-> mismatch_reasons]

\* list.index(x): position (1-based here) of the first element equal to x.
Index(list, x) ==
    CHOOSE i \in 1..Len(list) :
        list[i] = x /\ \A k \in 1..(i - 1) : list[k] # x

\* Mutant of PairDetails: the records of a mismatched pair drop the reasons.
PairDetails_NoReasons(pair, tolerance_level_) ==
    LET mismatch_reasons == _check_event_match(pair[1], pair[2], tolerance_level_)
    IN IF mismatch_reasons = <<>>
       THEN <<EventMatchDetail("tp", pair[1], pair[2], <<>>)>>
       ELSE <<EventMatchDetail("fp", pair[1], pair[2], <<>>),
              EventMatchDetail("fn", NoEvent, pair[2], <<>>)>>

\* Mutant of PairDetails: a mismatched pair records only the FP.
PairDetails_FpOnly(pair, tolerance_level_) ==
    LET mismatch_reasons == _check_event_match(pair[1], pair[2], tolerance_level_)
    IN IF mismatch_reasons = <<>>
       THEN <<EventMatchDetail("tp", pair[1], pair[2], <<>>)>>
       ELSE <<EventMatchDetail("fp", pair[1], pair[2], mismatch_reasons)>>

\* Lines 350-386: the records one matched pair appends to details.
PairDetails(pair, tolerance_level_) ==
    LET mismatch_reasons == _check_event_match(pair[1], pair[2], tolerance_level_)
    IN IF mismatch_reasons = <<>>
       THEN <<EventMatchDetail("tp", pair[1], pair[2], <<>>)>>
       ELSE <<EventMatchDetail("fp", pair[1], pair[2], mismatch_reasons),
              EventMatchDetail("fn", NoEvent, pair[2], mismatch_reasons)>>

\* Lines 343-386: `for actual_event, expected_event, _dist in pairs`, from
\* pair k on; acc carries paired_actual_indices, paired_expected_indices
\* (1-based), tp, fp_from_mismatch, fn_from_mismatch and details.
RECURSIVE PairsLoop(_, _, _, _, _, _)
PairsLoop(pairs, k, actual_events_, expected_events_, tolerance_level_, acc) ==
    IF k > Len(pairs) THEN acc
    ELSE LET act_idx == Index(actual_events_, pairs[k][1])
             exp_idx == Index(expected_events_, pairs[k][2])
             recs == PairDetails(pairs[k], tolerance_level_)
             is_tp == _check_event_match(pairs[k][1], pairs[k][2],
                                         tolerance_level_) = <<>>
         IN PairsLoop(pairs, k + 1, actual_events_, expected_events_, tolerance_level_,
                [paired_actual_indices |-> acc.paired_actual_indices \cup {act_idx},
                 paired_expected_indices |-> acc.paired_expected_indices \cup {exp_idx},
                 tp |-> acc.tp + (IF is_tp THEN 1 ELSE 0),
                 fp_from_mismatch |-> acc.fp_from_mismatch + (IF is_tp THEN 0 ELSE 1),
                 fn_from_mismatch |-> acc.fn_from_mismatch + (IF is_tp THEN 0 ELSE 1),
                 details |-> acc.details \o recs])

\* Lines 388-410: one record per index of `events` outside `paired`, in order.
RECURSIVE Unmatched(_, _, _, _)
Unmatched(events, paired, classification, i) ==
    IF i > Len(events) THEN <<>>
    ELSE (IF i \notin paired
          THEN <<IF classification = "fp"
                 THEN EventMatchDetail("fp", events[i], NoEvent, <<>>)
                 ELSE EventMatchDetail("fn", NoEvent, events[i], <<>>)>>
          ELSE <<>>)
         \o Unmatched(events, paired, classification, i + 1)

SampleScore(category, tolerance, tp, fp, fn_, details) ==
    LET prf == _compute_prf(tp, fp, fn_)
    IN [category |-> category, tolerance |-> tolerance,
        tp |-> tp, fp |-> fp, fn |-> fn_,
        precision |-> prf[1], recall |-> prf[2], f1 |-> prf[3],
        per_event_details |-> details]

\* Lines 409-427: totals and the SampleScore returned.
ScoreTotals(acc, fp_recs, fn_recs, tolerance_level_, category) ==
    SampleScore(category, tolerance_level_, acc.tp,
                acc.fp_from_mismatch + Len(fp_recs),
                acc.fn_from_mismatch + Len(fn_recs),
                acc.details \o fp_recs \o fn_recs)

\* Lines 388-427: the unmatched events of both lists, then the totals.
ScoreUnmatched(acc, actual_events_, expected_events_, tolerance_level_, category) ==
    ScoreTotals(acc,
                Unmatched(actual_events_, acc.paired_actual_indices, "fp", 1),
                Unmatched(expected_events_, acc.paired_expected_indices, "fn", 1),
                tolerance_level_, category)

\* What a call of score_sample ends in when an exception leaves it.
TypeError == [raised |-> TRUE, exception |-> "TypeError"]

\* Line 339 (_best_match_pairs) and line 350 (_check_event_match on each
\* matched pair) are called outside any try block.
AnyPairRaises(pairs) ==
    \E k \in 1..Len(pairs) : CheckEventMatchRaises(pairs[k][1], pairs[k][2])

ScoreSampleRaises(actual_events_, expected_events_) ==
    \/ BestMatchPairsRaises(actual_events_, expected_events_)
    \/ AnyPairRaises(_best_match_pairs(actual_events_, expected_events_))

score_sample(actual_events_, expected_events_, tolerance_level_, category) ==
    IF actual_events_ = <<>> /\ expected_events_ = <<>>
    THEN SampleScore(category, tolerance_level_, 0, 0, 0, <<>>)
    ELSE IF ScoreSampleRaises(actual_events_, expected_events_)
    THEN TypeError
    ELSE ScoreUnmatched(
             PairsLoop(_best_match_pairs(actual_events_, expected_events_), 1,
                       actual_events_, expected_events_, tolerance_level_,
                       [paired_actual_indices |-> {},
                        paired_expected_indices |-> {},
                        tp |-> 0, fp_from_mismatch |-> 0,
                        fn_from_mismatch |-> 0, details |-> <<>>]),
             actual_events_, expected_events_, tolerance_level_, category)

\* ------------------------------------------------------------------------
\* aggregate_scores and calibrate_confidence (scoring.py 430-535)
\* ------------------------------------------------------------------------
\* sum(s.<field> for s in samples)
RECURSIVE Sum(_, _)
Sum(samples, field) ==
    IF samples = <<>> THEN 0 ELSE Head(samples)[field] + Sum(Tail(samples), field)

\* The category names of the model in the order sorted() gives them.
CategoryOrder == <<"adversarial", "crud", "simple">>

\* sorted(categories): the distinct categories of the samples, ascending.
SortedCategories(sample_scores_) ==
    LET IsPresent(c) ==
            \E i \in 1..Len(sample_scores_) : sample_scores_[i].category = c
    IN SelectSeq(CategoryOrder, IsPresent)

\* Mutant of SortedCategories: the categories in order of first appearance.
RECURSIVE FirstSeenCategories(_)
FirstSeenCategories(sample_scores_) ==
    IF sample_scores_ = <<>> THEN <<>>
    ELSE LET init == FirstSeenCategories(SubSeq(sample_scores_, 1,
                                                Len(sample_scores_) - 1))
             c == sample_scores_[Len(sample_scores_)].category
         IN IF \E i \in 1..Len(init) : init[i] = c THEN init
            ELSE Append(init, c)

\* Lines 467-482: the CategoryScore of one category.
CategoryScore(cat_name, sample_scores_) ==
    LET InCategory(s) == s.category = cat_name
        cat_samples == SelectSeq(sample_scores_, InCategory)
        cat_tp == Sum(cat_samples, "tp")
        cat_fp == Sum(cat_samples, "fp")
        cat_fn == Sum(cat_samples, "fn")
        prf == _compute_prf(cat_tp, cat_fp, cat_fn)
    IN [category |-> cat_name, tp |-> cat_tp, fp |-> cat_fp, fn |-> cat_fn,
        precision |-> prf[1], recall |-> prf[2], f1 |-> prf[3],
        sample_count |-> Len(cat_samples)]

AggregateScore(tp, fp, fn_, prf, per_category, sample_count) ==
    [overall_tp |-> tp, overall_fp |-> fp, overall_fn |-> fn_,
     overall_precision |-> prf[1], overall_recall |-> prf[2],
     overall_f1 |-> prf[3], per_category |-> per_category,
     sample_count |-> sample_count]

\* Mutant of aggregate_scores: the overall metrics are computed with fp
\* and fn exchanged.
aggregate_scores_SwappedCounts(sample_scores_) ==
    IF sample_scores_ = <<>>
    THEN AggregateScore(0, 0, 0, <<One, One, One>>, <<>>, 0)
    ELSE LET cats == SortedCategories(sample_scores_)
         IN AggregateScore(
                Sum(sample_scores_, "tp"), Sum(sample_scores_, "fp"),
                Sum(sample_scores_, "fn"),
                _compute_prf(Sum(sample_scores_, "tp"),
                             Sum(sample_scores_, "fn"),
                             Sum(sample_scores_, "fp")),
                [k \in 1..Len(cats) |-> CategoryScore(cats[k], sample_scores_)],
                Len(sample_scores_))

\* Mutant of aggregate_scores: the categories are not sorted.
aggregate_scores_Unsorted(sample_scores_) ==
    IF sample_scores_ = <<>>
    THEN AggregateScore(0, 0, 0, <<One, One, One>>, <<>>, 0)
    ELSE LET cats == FirstSeenCategories(sample_scores_)
         IN AggregateScore(
                Sum(sample_scores_, "tp"), Sum(sample_scores_, "fp"),
                Sum(sample_scores_, "fn"),
                _compute_prf(Sum(sample_scores_, "tp"),
                             Sum(sample_scores_, "fp"),
                             Sum(sample_scores_, "fn")),
                [k \in 1..Len(cats) |-> CategoryScore(cats[k], sample_scores_)],
                Len(sample_scores_))

\* scoring.py 430-495
aggregate_scores(sample_scores_) ==
    IF sample_scores_ = <<>>
    THEN AggregateScore(0, 0, 0, <<One, One, One>>, <<>>, 0)
    ELSE LET cats == SortedCategories(sample_scores_)
         IN AggregateScore(
                Sum(sample_scores_, "tp"), Sum(sample_scores_, "fp"),
                Sum(sample_scores_, "fn"),
                _compute_prf(Sum(sample_scores_, "tp"),
                             Sum(sample_scores_, "fp"),
                             Sum(sample_scores_, "fn")),
                [k \in 1..Len(cats) |-> CategoryScore(cats[k], sample_scores_)],
                Len(sample_scores_))

\* Lines 519-526: all per-event records of all samples, in order.
RECURSIVE AllDetails(_)
AllDetails(sample_scores_) ==
    IF sample_scores_ = <<>> THEN <<>>
    ELSE Head(sample_scores_).per_event_details \o AllDetails(Tail(sample_scores_))

\* Mutant of ConfidenceCounts: records without a candidate are counted too
\* (under every level).
ConfidenceCounts_WithFn(details, conf) ==
    Cardinality({i \in 1..Len(details) :
                    \/ details[i].actual_event = NoEvent
                    \/ details[i].actual_event.confidence = conf})

\* Lines 521-524: confidence_counts[conf] after the loops.
ConfidenceCounts(details, conf) ==
    Cardinality({i \in 1..Len(details) :
                    /\ details[i].actual_event # NoEvent
                    /\ details[i].actual_event.confidence = conf})

\* Lines 525-526: confidence_correct[conf] after the loops.
ConfidenceCorrect(details, conf) ==
    Cardinality({i \in 1..Len(details) :
                    /\ details[i].actual_event # NoEvent
                    /\ details[i].actual_event.confidence = conf
                    /\ details[i].classification = "tp"})

\* scoring.py 498-535: the dict as a function on the levels it has keys for.
calibrate_confidence(sample_scores_) ==
    LET details == AllDetails(sample_scores_)
        levels == {conf \in {"high", "medium", "low"} :
                      ConfidenceCounts(details, conf) > 0}
    IN [conf \in levels |->
           Frac(ConfidenceCorrect(details, conf), ConfidenceCounts(details, conf))]

\* ------------------------------------------------------------------------
\* Assertion mode (tolerance.py 260-559).  A function that raises
\* AssertionError or returns None returns the list of the messages it raised
\* with here: <<message>> or <<>>; a message is <<label, kind>>.
\* ------------------------------------------------------------------------
\* Mutant of lower: the strings are compared as written.
lower_Verbatim(s) == s

\* str.lower() on the attendee names and required substrings of the model
lower(s) ==
    CASE s = "Alice" -> "alice"
      [] s = "ALICE" -> "alice"
      [] s = "Bob Smith" -> "bob smith"
      [] s = "Bob" -> "bob"
      [] s = "Dave" -> "dave"
      [] OTHER -> s

\* Python's `a in b` on the lower-cased strings of the model
IsSubstring(a, b) ==
    \/ a = b
    \/ a = ""
    \/ <<a, b>> \in {<<"bob", "bob smith">>}

\* tolerance.py 260-302
_assert_time_within_tolerance(actual_iso, expected_iso, tolerance, label) ==
    IF expected_iso = NULL THEN <<>>
    ELSE IF actual_iso = NULL THEN <<<<label, "expected but got None">>>>
    ELSE LET actual_dt == fromisoformat(actual_iso)
             expected_dt == fromisoformat(expected_iso)
         IN IF ~actual_dt.ok THEN <<<<label, "cannot parse actual">>>>
            ELSE IF ~expected_dt.ok THEN <<<<label, "cannot parse expected">>>>
            ELSE IF Abs(actual_dt.minutes - expected_dt.minutes) > tolerance
                 THEN <<<<label, "time difference exceeds tolerance">>>>
                 ELSE <<>>

\* tolerance.py 305-326
_assert_title_match(actual, expected, min_ratio, label) ==
    IF token_set_ratio(actual, expected) < min_ratio
    THEN <<<<label, "Title mismatch">>>>
    ELSE <<>>

\* tolerance.py 329-358: raises for the first required substring not found.
RECURSIVE _assert_attendees_contain(_, _)
_assert_attendees_contain(actual_attendees, required_substrings) ==
    IF required_substrings = <<>> THEN <<>>
    ELSE IF \E i \in 1..Len(actual_attendees) :
               IsSubstring(lower(Head(required_substrings)),
                           lower(actual_attendees[i]))
         THEN _assert_attendees_contain(actual_attendees, Tail(required_substrings))
         ELSE <<<<"attendees", "Attendee check failed">>>>

\* tolerance.py 366-378
_build_context_id_set(calendar_context_) == 1..Len(calendar_context_)

\* Mutant of _resolve_delete_time_from_context: the id is taken as a
\* 0-based index.
_resolve_delete_time_from_context_ZeroBased(actual_event_id, calendar_context_) ==
    IF actual_event_id = <<>> \/ calendar_context_ = <<>> THEN <<NULL, NULL>>
    ELSE LET idx == actual_event_id[1]
         IN IF 0 <= idx /\ idx < Len(calendar_context_)
            THEN <<calendar_context_[idx + 1].start, calendar_context_[idx + 1].end>>
            ELSE <<NULL, NULL>>

\* tolerance.py 381-407: (start, end) of the referenced context event, or
\* (None, None).
_resolve_delete_time_from_context(actual_event_id, calendar_context_) ==
    IF actual_event_id = <<>> \/ calendar_context_ = <<>> THEN <<NULL, NULL>>
    ELSE LET idx == actual_event_id[1] - 1
         IN IF 0 <= idx /\ idx < Len(calendar_context_)
            THEN <<calendar_context_[idx + 1].start, calendar_context_[idx + 1].end>>
            ELSE <<NULL, NULL>>

\* Lines 478-493: the expected (start, end) the tolerance checks compare with.
ExpectedTimes(actual_event, expected_event, calendar_context_) ==
    IF /\ actual_event.action = "delete"
       /\ actual_event.existing_event_id # <<>>
       /\ calendar_context_ # <<>>
    THEN LET ctx == _resolve_delete_time_from_context(
                        actual_event.existing_event_id, calendar_context_)
         IN <<IF ctx[1] # NULL THEN ctx[1] ELSE expected_event.start_time,
              IF ctx[2] # NULL THEN ctx[2] ELSE expected_event.end_time>>
    ELSE <<expected_event.start_time, expected_event.end_time>>

\* Lines 517-532: the existing_event_id_required check.
ExistingIdErrors(actual_event, expected_event, valid_context_ids) ==
    IF ~expected_event.existing_event_id_required THEN <<>>
    ELSE IF actual_event.existing_event_id = <<>>
         THEN <<<<"existing_event_id", "required but was None">>>>
    ELSE IF valid_context_ids = {}
         THEN <<<<"existing_event_id", "calendar_context is empty">>>>
    ELSE IF actual_event.existing_event_id[1] \notin valid_context_ids
         THEN <<<<"existing_event_id", "not in valid context IDs">>>>
    ELSE <<>>

\* Mutant of PairErrors: the locations must be equal.
PairErrors_LocationExact(actual_event, expected_event, level, calendar_context_) ==
    LET thresholds == THRESHOLDS[level]
        expected_times == ExpectedTimes(actual_event, expected_event,
                                        calendar_context_)
    IN IF actual_event.action # expected_event.action
       THEN <<<<"action", "action mismatch">>>>
       ELSE _assert_title_match(actual_event.title, expected_event.title,
                                thresholds.title_ratio_min, "title")
            \o _assert_time_within_tolerance(actual_event.start_time,
                   expected_times[1], thresholds.time_tolerance, "start_time")
            \o _assert_time_within_tolerance(actual_event.end_time,
                   expected_times[2], thresholds.time_tolerance, "end_time")
            \o ExistingIdErrors(actual_event, expected_event,
                                _build_context_id_set(calendar_context_))
            \o _assert_attendees_contain(actual_event.attendees,
                                         expected_event.attendees_contain)
            \o (IF /\ expected_event.location # NULL
                   /\ actual_event.location # expected_event.location
                THEN <<<<"location", "Title mismatch">>>>
                ELSE <<>>)

\* Mutant of PairErrors: only the first failure of a pair is recorded.
PairErrors_FirstOnly(actual_event, expected_event, level, calendar_context_) ==
    LET thresholds == THRESHOLDS[level]
        expected_times == ExpectedTimes(actual_event, expected_event,
                                        calendar_context_)
        all == _assert_title_match(actual_event.title, expected_event.title,
                                   thresholds.title_ratio_min, "title")
               \o _assert_time_within_tolerance(actual_event.start_time,
                      expected_times[1], thresholds.time_tolerance, "start_time")
               \o _assert_time_within_tolerance(actual_event.end_time,
                      expected_times[2], thresholds.time_tolerance, "end_time")
               \o ExistingIdErrors(actual_event, expected_event,
                                   _build_context_id_set(calendar_context_))
               \o _assert_attendees_contain(actual_event.attendees,
                                            expected_event.attendees_contain)
               \o (IF expected_event.location # NULL
                   THEN _assert_title_match(
                            IF actual_event.location = NULL THEN ""
                            ELSE actual_event.location,
                            expected_event.location,
                            thresholds.title_ratio_min, "location")
                   ELSE <<>>)
    IN IF actual_event.action # expected_event.action
       THEN <<<<"action", "action mismatch">>>>
       ELSE IF all = <<>> THEN <<>> ELSE <<all[1]>>

\* Mutant of PairErrors: at the strict level the title must be equal after
\* strip and lower, as in scoring mode.
PairErrors_StrictExact(actual_event, expected_event, level, calendar_context_) ==
    LET thresholds == THRESHOLDS[level]
        expected_times == ExpectedTimes(actual_event, expected_event,
                                        calendar_context_)
    IN IF actual_event.action # expected_event.action
       THEN <<<<"action", "action mismatch">>>>
       ELSE (IF level = "strict"
             THEN (IF strip_lower(actual_event.title)
                        # strip_lower(expected_event.title)
                   THEN <<<<"title", "Title mismatch">>>> ELSE <<>>)
             ELSE _assert_title_match(actual_event.title, expected_event.title,
                                      thresholds.title_ratio_min, "title"))
            \o _assert_time_within_tolerance(actual_event.start_time,
                   expected_times[1], thresholds.time_tolerance, "start_time")
            \o _assert_time_within_tolerance(actual_event.end_time,
                   expected_times[2], thresholds.time_tolerance, "end_time")
            \o ExistingIdErrors(actual_event, expected_event,
                                _build_context_id_set(calendar_context_))
            \o _assert_attendees_contain(actual_event.attendees,
                                         expected_event.attendees_contain)
            \o (IF expected_event.location # NULL
                THEN _assert_title_match(
                         IF actual_event.location = NULL THEN ""
                         ELSE actual_event.location,
                         expected_event.location,
                         thresholds.title_ratio_min, "location")
                ELSE <<>>)

\* Lines 458-552: the errors one matched pair appends.
PairErrors(actual_event, expected_event, level, calendar_context_) ==
    LET thresholds == THRESHOLDS[level]
        expected_times == ExpectedTimes(actual_event, expected_event,
                                        calendar_context_)
    IN IF actual_event.action # expected_event.action
       THEN <<<<"action", "action mismatch">>>>
       ELSE _assert_title_match(actual_event.title, expected_event.title,
                                thresholds.title_ratio_min, "title")
            \o _assert_time_within_tolerance(actual_event.start_time,
                   expected_times[1], thresholds.time_tolerance, "start_time")
            \o _assert_time_within_tolerance(actual_event.end_time,
                   expected_times[2], thresholds.time_tolerance, "end_time")
            \o ExistingIdErrors(actual_event, expected_event,
                                _build_context_id_set(calendar_context_))
            \o _assert_attendees_contain(actual_event.attendees,
                                         expected_event.attendees_contain)
            \o (IF expected_event.location # NULL
                THEN _assert_title_match(
                         IF actual_event.location = NULL THEN ""
                         ELSE actual_event.location,
                         expected_event.location,
                         thresholds.title_ratio_min, "location")
                ELSE <<>>)

\* Mutant of CollectErrors: the loop stops at the first pair that fails.
RECURSIVE CollectErrors_FailFast(_, _, _, _)
CollectErrors_FailFast(pairs, k, level, calendar_context_) ==
    IF k > Len(pairs) THEN <<>>
    ELSE LET errs == PairErrors(pairs[k][1], pairs[k][2], level, calendar_context_)
         IN IF errs # <<>> THEN errs
            ELSE CollectErrors_FailFast(pairs, k + 1, level, calendar_context_)

\* Lines 455-552: `for actual_event, expected_event, _dist in pairs`, from
\* pair k on: the errors list.
RECURSIVE CollectErrors(_, _, _, _)
CollectErrors(pairs, k, level, calendar_context_) ==
    IF k > Len(pairs) THEN <<>>
    ELSE PairErrors(pairs[k][1], pairs[k][2], level, calendar_context_)
         \o CollectErrors(pairs, k + 1, level, calendar_context_)

\* What a call of assert_extraction_result ends in: a normal return, or one
\* AssertionError with its headline, the issue count it states and the
\* violations it lists.
Returned == [raised |-> FALSE, message |-> "", issues |-> 0, errors |-> <<>>]

Raised(message, errors) ==
    [raised |-> TRUE, message |-> message, issues |-> Len(errors), errors |-> errors]

\* Mutant of ErrorsOf: every event the solver left unmatched is a violation.
ErrorsOf_WithResidue(actual_events_, expected_events_, level, calendar_context_) ==
    LET pairs == _best_match_pairs(actual_events_, expected_events_)
    IN CollectErrors(pairs, 1, level, calendar_context_)
       \o [k \in 1..(Max2(Len(actual_events_), Len(expected_events_)) - Len(pairs))
              |-> <<"unmatched", "event left unmatched">>]

\* Lines 451-552: pairing, then the per-pair assertions.
ErrorsOf(actual_events_, expected_events_, level, calendar_context_) ==
    CollectErrors(_best_match_pairs(actual_events_, expected_events_), 1,
                  level, calendar_context_)

\* Mutant of assert_extraction_result: the count check uses >= for >.
assert_extraction_result_CountGe(actual_events_, level, expected_events_, calendar_context_) ==
    LET thresholds == THRESHOLDS[level]
        count_diff == Abs(Len(actual_events_) - Len(expected_events_))
    IN IF count_diff >= thresholds.event_count_tolerance
       THEN Raised("Event count mismatch", <<>>)
       ELSE LET errors == ErrorsOf(actual_events_, expected_events_, level,
                                   calendar_context_)
            IN IF errors # <<>>
               THEN Raised("Extraction assertion failures", errors)
               ELSE Returned

\* tolerance.py 410-559; the sidecar is (level, expected_events,
\* calendar_context).
assert_extraction_result(actual_events_, level, expected_events_, calendar_context_) ==
    LET thresholds == THRESHOLDS[level]
        count_diff == Abs(Len(actual_events_) - Len(expected_events_))
    IN IF count_diff > thresholds.event_count_tolerance
       THEN Raised("Event count mismatch", <<>>)
       ELSE LET errors == ErrorsOf(actual_events_, expected_events_, level,
                                   calendar_context_)
            IN IF errors # <<>>
               THEN Raised("Extraction assertion failures", errors)
               ELSE Returned

\* ------------------------------------------------------------------------
\* State: one invocation of one of the engine's functions
\* ------------------------------------------------------------------------
VARIABLES
    call,             \* the function invoked
    returned,         \* FALSE at the call, TRUE once it has returned / raised
    cost_matrix,      \* argument of _hungarian_assignment
    actual_events,    \* candidates (ExtractedEvent list)
    expected_events,  \* references (SidecarExpectedEvent list)
    tolerance_level,  \* "strict" | "moderate" | "relaxed"
    counts,           \* <<tp, fp, fn>> argument of _compute_prf
    calendar_context, \* sidecar.calendar_context
    sample_scores,    \* argument of aggregate_scores / calibrate_confidence
    fn_args,          \* arguments of a function called on plain values
    locals,           \* local variables of a function in progress
    result            \* the value returned, NULL before the return

vars == <<call, returned, cost_matrix, actual_events, expected_events,
          tolerance_level, counts, calendar_context, sample_scores, fn_args,
          locals, result>>

args == <<call, cost_matrix, actual_events, expected_events, tolerance_level,
          counts, calendar_context, sample_scores, fn_args,
          locals>>

\* ------------------------------------------------------------------------
\* Inputs
\* ------------------------------------------------------------------------
Costs == {0, 20, 40}

\* Matrices of up to six cells draw every entry from Costs; larger ones from
\* the two smallest costs, which keeps their number within reach.
CostsFor(n, m) == IF n * m <= 6 THEN Costs ELSE {0, 20}

\* n x m matrices, n <= MaxRows, m <= MaxCols (n = 0: [], m = 0: [[], ...]).
Matrices ==
    UNION {[1..n -> [1..m -> CostsFor(n, m)]] : n \in 0..MaxRows, m \in 0..MaxCols}

ExtractedEvent(action, title, start_time, end_time) ==
    [action |-> action, title |-> title, start_time |-> start_time,
     end_time |-> end_time, location |-> NULL, attendees |-> <<>>,
     confidence |-> "high", existing_event_id |-> <<>>]

SidecarExpectedEvent(action, title, start_time, end_time) ==
    [action |-> action, title |-> title, start_time |-> start_time,
     end_time |-> end_time, existing_event_id_required |-> FALSE,
     location |-> NULL, attendees_contain |-> <<>>]

\* Candidates: a plain event, one with another action, one with another
\* title and time ...
ActualCore ==
    { ExtractedEvent("create", "Lunch", "2026-02-20T12:00:00", NULL),
      ExtractedEvent("delete", "Lunch", "2026-02-20T12:00:00", NULL),
      ExtractedEvent("create", "Gym", "2026-02-20T14:01:00", NULL) }

\* ... and a title in another case with an end_time, a start_time that is
\* no ISO timestamp, and an end_time one minute off.
ActualPool ==
    ActualCore \cup
    { ExtractedEvent("create", "lunch ", "2026-02-20T12:30:00", "2026-02-20T14:00:00"),
      ExtractedEvent("create", "Lunch", "next tuesday", NULL),
      ExtractedEvent("create", "Lunch", "2026-02-20T12:00:00", "2026-02-20T14:01:00") }

\* References: two that differ only in end_time (equal distance to every
\* candidate), one with another title ...
ExpectedCore ==
    { SidecarExpectedEvent("create", "Lunch", "2026-02-20T12:00:00", NULL),
      SidecarExpectedEvent("create", "Lunch", "2026-02-20T12:00:00", "2026-02-20T14:00:00"),
      SidecarExpectedEvent("create", "Gym", "2026-02-20T12:00:00", NULL) }

\* ... and a delete with a longer title, and a start_time that is no ISO
\* timestamp.
ExpectedPool ==
    ExpectedCore \cup
    { SidecarExpectedEvent("delete", "Lunch Break", "2026-02-20T12:00:00", NULL),
      SidecarExpectedEvent("create", "Lunch", "next tuesday", NULL) }

\* Scoring mode also sees timestamps with a UTC offset, in start_time and in
\* end_time, on either side, and a reference that requires an existing id.
ScoreActualPool ==
    ActualPool \cup
    { ExtractedEvent("create", "Lunch", "2026-02-20T12:00:00+00:00", NULL),
      ExtractedEvent("create", "Lunch", "2026-02-20T12:00:00",
                     "2026-02-20T14:00:00+00:00") }

ScoreExpectedPool ==
    ExpectedPool \cup
    { SidecarExpectedEvent("create", "Lunch", "2026-02-20T12:00:00+00:00", NULL),
      [SidecarExpectedEvent("delete", "Lunch", "2026-02-20T12:00:00", NULL)
          EXCEPT !.existing_event_id_required = TRUE] }

\* Event lists of up to k events: lists of one or two events draw from the
\* whole pool, longer ones from its core, which keeps their number within
\* reach.
EventLists(pool, core, k) ==
    SeqsUpTo(pool, Min2(k, 2)) \cup UNION {[1..n -> core] : n \in 3..k}

\* ------------------------------------------------------------------------
\* Specification of the matcher: _hungarian_assignment on any small matrix,
\* _best_match_pairs on any two short event lists
\* ------------------------------------------------------------------------
InitHungarian ==
    /\ call = "_hungarian_assignment"
    /\ returned = FALSE
    /\ result = NULL
    /\ cost_matrix \in Matrices
    /\ actual_events = <<>>
    /\ expected_events = <<>>
    /\ tolerance_level = "moderate"
    /\ counts = <<0, 0, 0>>
    /\ calendar_context = <<>>
    /\ sample_scores = <<>>
    /\ fn_args = <<NULL, NULL>>
    /\ locals = <<>>

InitBestMatch ==
    /\ call = "_best_match_pairs"
    /\ returned = FALSE
    /\ result = NULL
    /\ cost_matrix = <<>>
    /\ actual_events \in EventLists(ActualPool, ActualCore, MaxActual)
    /\ expected_events \in EventLists(ExpectedPool, ExpectedCore, MaxExpected)
    /\ tolerance_level = "moderate"
    /\ counts = <<0, 0, 0>>
    /\ calendar_context = <<>>
    /\ sample_scores = <<>>
    /\ fn_args = <<NULL, NULL>>
    /\ locals = <<>>

\* Events that differ in action and title only: all start times are equal.
DominanceActualPool ==
    {ExtractedEvent(action, title, "2026-02-20T12:00:00", NULL) :
        action \in {"create", "delete"}, title \in {"Lunch", "Gym"}}

DominanceActualCore ==
    { ExtractedEvent("create", "Gym", "2026-02-20T12:00:00", NULL),
      ExtractedEvent("delete", "Lunch", "2026-02-20T12:00:00", NULL),
      ExtractedEvent("create", "Lunch", "2026-02-20T12:00:00", NULL) }

DominanceExpectedPool ==
    {SidecarExpectedEvent(action, title, "2026-02-20T12:00:00", NULL) :
        action \in {"create", "delete"}, title \in {"Lunch", "Gym"}}

DominanceExpectedCore ==
    { SidecarExpectedEvent("create", "Lunch", "2026-02-20T12:00:00", NULL),
      SidecarExpectedEvent("delete", "Gym", "2026-02-20T12:00:00", NULL),
      SidecarExpectedEvent("delete", "Lunch", "2026-02-20T12:00:00", NULL) }

InitDominance ==
    /\ call = "_best_match_pairs"
    /\ returned = FALSE
    /\ result = NULL
    /\ cost_matrix = <<>>
    /\ actual_events \in EventLists(DominanceActualPool, DominanceActualCore, MaxActual)
    /\ expected_events \in EventLists(DominanceExpectedPool, DominanceExpectedCore,
                                      MaxExpected)
    /\ tolerance_level = "moderate"
    /\ counts = <<0, 0, 0>>
    /\ calendar_context = <<>>
    /\ sample_scores = <<>>
    /\ fn_args = <<NULL, NULL>>
    /\ locals = <<>>

HungarianAssignment ==
    /\ call = "_hungarian_assignment"
    /\ ~returned
    /\ returned' = TRUE
    /\ result' = _hungarian_assignment(cost_matrix)
    /\ UNCHANGED args

BestMatchPairs ==
    /\ call = "_best_match_pairs"
    /\ ~returned
    /\ returned' = TRUE
    /\ result' = _best_match_pairs(actual_events, expected_events)
    /\ UNCHANGED args

InitMatch == InitHungarian \/ InitBestMatch \/ InitDominance

NextMatch == HungarianAssignment \/ BestMatchPairs

SpecMatch == InitMatch /\ [][NextMatch]_vars

\* ------------------------------------------------------------------------
\* Specification of scoring mode: score_sample on any two short event lists
\* at any tolerance level, _compute_prf on any small counts
\* ------------------------------------------------------------------------
InitScore ==
    /\ call = "score_sample"
    /\ returned = FALSE
    /\ result = NULL
    /\ cost_matrix = <<>>
    /\ actual_events \in EventLists(ScoreActualPool, ActualCore, MaxActual)
    /\ expected_events \in EventLists(ScoreExpectedPool, ExpectedCore, MaxExpected)
    /\ tolerance_level \in _TOLERANCE_LEVELS
    /\ counts = <<0, 0, 0>>
    /\ calendar_context = <<>>
    /\ sample_scores = <<>>
    /\ fn_args = <<NULL, NULL>>
    /\ locals = <<>>

InitPRF ==
    /\ call = "_compute_prf"
    /\ returned = FALSE
    /\ result = NULL
    /\ cost_matrix = <<>>
    /\ actual_events = <<>>
    /\ expected_events = <<>>
    /\ tolerance_level = "moderate"
    /\ counts \in (0..MaxCount) \X (0..MaxCount) \X (0..MaxCount)
    /\ calendar_context = <<>>
    /\ sample_scores = <<>>
    /\ fn_args = <<NULL, NULL>>
    /\ locals = <<>>

ScoreSample ==
    /\ call = "score_sample"
    /\ ~returned
    /\ returned' = TRUE
    /\ result' = score_sample(actual_events, expected_events, tolerance_level,
                              "uncategorized")
    /\ UNCHANGED args

ComputePRF ==
    /\ call = "_compute_prf"
    /\ ~returned
    /\ returned' = TRUE
    /\ result' = _compute_prf(counts[1], counts[2], counts[3])
    /\ UNCHANGED args

Init == InitScore \/ InitPRF

Next == ScoreSample \/ ComputePRF

Spec == Init /\ [][Next]_vars

\* ------------------------------------------------------------------------
\* Specification of assertion mode: assert_extraction_result on any two
\* short event lists, any tolerance level, with and without calendar context
\* ------------------------------------------------------------------------
AssertActualCore ==
    { ExtractedEvent("create", "Lunch", "2026-02-20T12:00:00", NULL),
      [ExtractedEvent("delete", "Lunch", "2026-02-20T14:01:00", NULL)
          EXCEPT !.existing_event_id = <<1>>] }

AssertActualPool ==
    AssertActualCore \cup
    { [ExtractedEvent("create", "Gym", "2026-02-20T12:31:00", NULL)
          EXCEPT !.attendees = <<"Alice">>],
      ExtractedEvent("create", "lunch ", "next tuesday", NULL),
      ExtractedEvent("create", "Lunch Break", "2026-02-20T12:00:00", NULL),
      [ExtractedEvent("delete", "Lunch", "2026-02-20T14:01:00", "2026-02-20T14:00:00")
          EXCEPT !.existing_event_id = <<2>>, !.location = "lunch "],
      [ExtractedEvent("delete", "Lunch", "2026-02-20T12:00:00", NULL)
          EXCEPT !.location = ""] }

AssertExpectedCore ==
    { SidecarExpectedEvent("create", "Lunch", "2026-02-20T12:00:00", NULL),
      [SidecarExpectedEvent("delete", "Lunch", "2026-02-20T12:00:00", NULL)
          EXCEPT !.existing_event_id_required = TRUE] }

AssertExpectedPool ==
    AssertExpectedCore \cup
    { [SidecarExpectedEvent("create", "Gym", "2026-02-20T12:00:00", "2026-02-20T14:00:00")
          EXCEPT !.attendees_contain = <<"Dave">>, !.location = "Gym"],
      SidecarExpectedEvent("create", "Lunch", "2026-02-21T12:00:00", NULL),
      [SidecarExpectedEvent("delete", "Gym", "2026-02-20T12:00:00", "2026-02-20T14:00:00")
          EXCEPT !.existing_event_id_required = TRUE,
                 !.attendees_contain = <<"Dave">>, !.location = "Gym"],
      [SidecarExpectedEvent("delete", "Lunch", "2026-02-20T12:00:00", NULL)
          EXCEPT !.location = "Lunch"] }

SidecarCalendarEvent(start, end) == [start |-> start, end |-> end]

ContextPool ==
    { <<>>,
      <<SidecarCalendarEvent("2026-02-20T14:00:00", "2026-02-20T14:00:00")>>,
      <<SidecarCalendarEvent("2026-02-20T14:00:00", "2026-02-20T14:00:00"),
        SidecarCalendarEvent("2026-02-21T12:00:00", "2026-02-21T12:01:00")>> }

InitAssert ==
    /\ call = "assert_extraction_result"
    /\ returned = FALSE
    /\ result = NULL
    /\ cost_matrix = <<>>
    /\ actual_events \in EventLists(AssertActualPool, AssertActualCore, MaxAssertEvents)
    /\ expected_events \in EventLists(AssertExpectedPool, AssertExpectedCore, MaxAssertEvents)
    /\ tolerance_level \in _TOLERANCE_LEVELS
    /\ counts = <<0, 0, 0>>
    /\ calendar_context \in ContextPool
    /\ sample_scores = <<>>
    /\ fn_args = <<NULL, NULL>>
    /\ locals = <<>>

AssertExtractionResult ==
    /\ call = "assert_extraction_result"
    /\ ~returned
    /\ returned' = TRUE
    /\ result' = assert_extraction_result(actual_events, tolerance_level,
                                          expected_events, calendar_context)
    /\ UNCHANGED args

SpecAssert == InitAssert /\ [][AssertExtractionResult]_vars

\* ------------------------------------------------------------------------
\* Specification of both consumers of the pair classification rules:
\* score_sample and assert_extraction_result on their inputs above
\* ------------------------------------------------------------------------
InitClassify == InitScore \/ InitAssert

NextClassify == ScoreSample \/ AssertExtractionResult

SpecClassify == InitClassify /\ [][NextClassify]_vars

\* ------------------------------------------------------------------------
\* Specification of the time functions: _check_time_tolerance,
\* _assert_time_within_tolerance and _time_distance on any two timestamps,
\* _event_pair_distance on any candidate and reference
\* ------------------------------------------------------------------------
\* Timestamps: none, ISO strings 0, 30, 31, 120, 121, 1440 and 1441 minutes
\* after the first, one with a UTC offset, and a string that is no ISO
\* timestamp.
TimestampPool ==
    { NULL, "2026-02-20T12:00:00", "2026-02-20T12:30:00", "2026-02-20T12:31:00",
      "2026-02-20T14:00:00", "2026-02-20T14:01:00", "2026-02-21T12:00:00",
      "2026-02-21T12:01:00", "2026-02-20T12:00:00+00:00", "next tuesday" }

\* What a call of one of these functions ends in: a value, or TypeError.
Value(v) == [raised |-> FALSE, value |-> v]

InitTimeCheck ==
    /\ call \in {"_check_time_tolerance", "_assert_time_within_tolerance"}
    /\ returned = FALSE
    /\ result = NULL
    /\ cost_matrix = <<>>
    /\ actual_events = <<>>
    /\ expected_events = <<>>
    /\ tolerance_level \in _TOLERANCE_LEVELS
    /\ counts = <<0, 0, 0>>
    /\ calendar_context = <<>>
    /\ sample_scores = <<>>
    /\ fn_args \in TimestampPool \X TimestampPool
    /\ locals = <<>>

InitTimeDistance ==
    /\ call = "_time_distance"
    /\ returned = FALSE
    /\ result = NULL
    /\ cost_matrix = <<>>
    /\ actual_events = <<>>
    /\ expected_events = <<>>
    /\ tolerance_level = "moderate"
    /\ counts = <<0, 0, 0>>
    /\ calendar_context = <<>>
    /\ sample_scores = <<>>
    /\ fn_args \in TimestampPool \X TimestampPool
    /\ locals = <<>>

InitPairDistance ==
    /\ call = "_event_pair_distance"
    /\ returned = FALSE
    /\ result = NULL
    /\ cost_matrix = <<>>
    /\ actual_events \in {<<a>> : a \in ScoreActualPool}
    /\ expected_events \in {<<e>> : e \in ScoreExpectedPool}
    /\ tolerance_level = "moderate"
    /\ counts = <<0, 0, 0>>
    /\ calendar_context = <<>>
    /\ sample_scores = <<>>
    /\ fn_args = <<NULL, NULL>>
    /\ locals = <<>>

CheckTimeTolerance ==
    /\ call = "_check_time_tolerance"
    /\ ~returned
    /\ returned' = TRUE
    /\ result' = IF SubtractionRaises(fn_args[1], fn_args[2])
                 THEN TypeError
                 ELSE Value(_check_time_tolerance(
                                fn_args[1], fn_args[2],
                                THRESHOLDS[tolerance_level].time_tolerance,
                                "start_time"))
    /\ UNCHANGED args

AssertTimeWithinTolerance ==
    /\ call = "_assert_time_within_tolerance"
    /\ ~returned
    /\ returned' = TRUE
    /\ result' = IF SubtractionRaises(fn_args[1], fn_args[2])
                 THEN TypeError
                 ELSE Value(_assert_time_within_tolerance(
                                fn_args[1], fn_args[2],
                                THRESHOLDS[tolerance_level].time_tolerance,
                                "start_time"))
    /\ UNCHANGED args

TimeDistance ==
    /\ call = "_time_distance"
    /\ ~returned
    /\ returned' = TRUE
    /\ result' = IF SubtractionRaises(fn_args[1], fn_args[2])
                 THEN TypeError
                 ELSE Value(_time_distance(fn_args[1], fn_args[2]))
    /\ UNCHANGED args

EventPairDistance ==
    /\ call = "_event_pair_distance"
    /\ ~returned
    /\ returned' = TRUE
    /\ result' = IF SubtractionRaises(actual_events[1].start_time,
                                      expected_events[1].start_time)
                 THEN TypeError
                 ELSE Value(_event_pair_distance(actual_events[1],
                                                 expected_events[1]))
    /\ UNCHANGED args

InitTime == InitTimeCheck \/ InitTimeDistance \/ InitPairDistance

NextTime ==
    \/ CheckTimeTolerance
    \/ AssertTimeWithinTolerance
    \/ TimeDistance
    \/ EventPairDistance

SpecTime == InitTime /\ [][NextTime]_vars

\* ------------------------------------------------------------------------
\* Specification of the solver's loops: _hungarian_assignment on any small
\* matrix, one step per loop iteration.  locals.pc is the position in the
\* function: "enter", "for" (line 166), "while" (line 172), "backtrack"
\* (line 200), "done"; locals.passes counts the passes of the `while True`
\* loop in the current row iteration.
\* ------------------------------------------------------------------------
MaxSide == 3

MaxPasses == 8

\* The rows of the larger matrices: all columns equal, the first column
\* dearer, the first column cheaper.
RowPatterns(m) ==
    { [j \in 1..m |-> 0],
      [j \in 1..m |-> IF j = 1 THEN 20 ELSE 0],
      [j \in 1..m |-> IF j = 1 THEN 0 ELSE 20] }

\* n x m matrices, n, m <= MaxSide: every entry 0 or 20 up to six cells,
\* every row one of RowPatterns beyond.
SolverMatrices ==
    UNION {IF n * m <= 6 THEN [1..n -> [1..m -> {0, 20}]]
           ELSE [1..n -> RowPatterns(m)] : n \in 0..MaxSide, m \in 0..MaxSide}

inputs == <<call, cost_matrix, actual_events, expected_events, tolerance_level,
            counts, calendar_context, sample_scores, fn_args>>

InitSolver ==
    /\ call = "_hungarian_assignment"
    /\ returned = FALSE
    /\ result = NULL
    /\ cost_matrix \in SolverMatrices
    /\ actual_events = <<>>
    /\ expected_events = <<>>
    /\ tolerance_level = "moderate"
    /\ counts = <<0, 0, 0>>
    /\ calendar_context = <<>>
    /\ sample_scores = <<>>
    /\ fn_args = <<NULL, NULL>>
    /\ locals = [pc |-> "enter"]

\* Lines 146-164: the early return, or the arrays before the first row.
HungarianEnter ==
    /\ call = "_hungarian_assignment"
    /\ ~returned
    /\ locals.pc = "enter"
    /\ IF cost_matrix = <<>> \/ cost_matrix[1] = <<>>
       THEN /\ returned' = TRUE
            /\ result' = <<>>
            /\ locals' = [pc |-> "done"]
       ELSE LET n == Max2(Len(cost_matrix), Len(cost_matrix[1]))
            IN /\ locals' = [pc |-> "for", n |-> n, i |-> 1, passes |-> 0,
                             h |-> HungarianStart(n)]
               /\ UNCHANGED <<returned, result>>
    /\ UNCHANGED inputs

\* Line 166 `for i in range(1, n + 1)` with lines 167-170, or lines 205-210
\* after the last row.
HungarianFor ==
    /\ ~returned
    /\ locals.pc = "for"
    /\ IF locals.i > locals.n
       THEN /\ returned' = TRUE
            /\ result' = ExtractAssignment(locals.h.p, locals.n,
                                           Len(cost_matrix),
                                           Len(cost_matrix[1]), 1)
            /\ locals' = [locals EXCEPT !.pc = "done"]
       ELSE /\ locals' = [locals EXCEPT
                             !.pc = "while",
                             !.passes = 0,
                             !.h = [@ EXCEPT !.p[0] = locals.i, !.j0 = 0,
                                             !.min_v = Filled(locals.n, INF),
                                             !.used = Filled(locals.n, FALSE)]]
            /\ UNCHANGED <<returned, result>>
    /\ UNCHANGED inputs

\* One pass of `while True`, lines 172-197.
HungarianWhileTrue ==
    /\ ~returned
    /\ locals.pc = "while"
    /\ locals.passes < MaxPasses
    /\ \E h1 \in {HungarianPass(PadMatrix(cost_matrix, locals.n), locals.n,
                                  locals.h)} :
          locals' = [locals EXCEPT
                        !.h = h1,
                        !.passes = @ + 1,
                        !.pc = IF h1.p[PyIdx(h1.j0, locals.n)] = 0
                               THEN "backtrack" ELSE "while"]
    /\ UNCHANGED <<returned, result>>
    /\ UNCHANGED inputs

\* One test of `while j0` and its body, lines 200-202; the next row when j0
\* is 0.
HungarianWhileJ0 ==
    /\ ~returned
    /\ locals.pc = "backtrack"
    /\ LET h == locals.h
       IN IF h.j0 = 0
          THEN locals' = [locals EXCEPT !.pc = "for", !.i = @ + 1]
          ELSE locals' = [locals EXCEPT
                             !.h = [h EXCEPT !.p[h.j0] = h.p[h.way[h.j0]],
                                             !.j0 = h.way[h.j0]]]
    /\ UNCHANGED <<returned, result>>
    /\ UNCHANGED inputs

NextSolver ==
    \/ HungarianEnter
    \/ HungarianFor
    \/ HungarianWhileTrue
    \/ HungarianWhileJ0

SpecSolver == InitSolver /\ [][NextSolver]_vars

\* The function runs on: a step that can be taken is taken.
SpecSolverLive == SpecSolver /\ WF_vars(NextSolver)

\* ------------------------------------------------------------------------
\* Specification of the retry decorator: one invocation of a method wrapped
\* by with_retry (src/cal_ai/calendar/exceptions.py 106-223), any max_retries
\* up to MaxRetries, with and without _refresh_credentials, any outcome of
\* each call of the wrapped function and of the refresh.  fn_args is
\* <<max_retries, whether the instance has _refresh_credentials>>;
\* locals.log lists the calls made, in order.
\* ------------------------------------------------------------------------
MaxRetries == 3

_AUTH_RETRY_LIMIT == 1

\* What a call of the wrapped function ends in.
Return == [kind |-> "return", status |-> 0]

HttpError(status) == [kind |-> "HttpError", status |-> status]

OSError == [kind |-> "OSError", status |-> 0]

Outcomes == {Return, OSError} \cup {HttpError(st) : st \in {401, 404, 429, 500}}

\* What a call of _refresh_credentials ends in.
Refreshed == [kind |-> "refresh", status |-> 0]

RefreshFailed == [kind |-> "refresh failed", status |-> 0]

\* exceptions.py 86-103
_classify_http_error(status) ==
    CASE status = 404 -> "CalendarNotFoundError"
      [] status = 429 -> "CalendarRateLimitError"
      [] status = 401 -> "CalendarAuthError"
      [] OTHER -> "CalendarAPIError"

Raise(exception, message) ==
    [raised |-> TRUE, exception |-> exception, message |-> message]

InitRetry ==
    /\ call = "with_retry"
    /\ returned = FALSE
    /\ result = NULL
    /\ cost_matrix = <<>>
    /\ actual_events = <<>>
    /\ expected_events = <<>>
    /\ tolerance_level = "moderate"
    /\ counts = <<0, 0, 0>>
    /\ calendar_context = <<>>
    /\ sample_scores = <<>>
    /\ fn_args \in (0..MaxRetries) \X BOOLEAN
    /\ locals = [pc |-> "for", attempt |-> 0, auth_retries |-> 0, log |-> <<>>]

\* The wrapper ends: it returns or raises.
Ends(outcome, value) ==
    /\ returned' = TRUE
    /\ result' = value
    /\ locals' = [locals EXCEPT !.pc = "done", !.log = Append(@, outcome)]

\* `continue`: the next attempt of the for loop.
Continues(outcome) ==
    /\ locals' = [locals EXCEPT !.attempt = @ + 1, !.log = Append(@, outcome)]
    /\ UNCHANGED <<returned, result>>

\* Lines 140-216: one attempt of `for attempt in range(max_retries + 1)`,
\* the call of the wrapped function and the handling of what it raises, up
\* to the call of _refresh_credentials.
WrapperAttempt ==
    /\ call = "with_retry"
    /\ ~returned
    /\ locals.pc = "for"
    /\ locals.attempt <= fn_args[1]
    /\ \E outcome \in Outcomes :
          LET max_retries == fn_args[1]
              cal_error == _classify_http_error(outcome.status)
          IN CASE outcome.kind = "return" -> Ends(outcome, Value("ok"))
               [] outcome.kind = "OSError" ->
                     IF locals.attempt >= max_retries
                     THEN Ends(outcome, Raise("CalendarAPIError", "Network error"))
                     ELSE Continues(outcome)
               [] outcome.kind = "HttpError" ->
                     IF cal_error = "CalendarNotFoundError"
                     THEN Ends(outcome, Raise(cal_error, "HttpError"))
                     ELSE IF cal_error = "CalendarRateLimitError"
                     THEN (IF locals.attempt >= max_retries
                           THEN Ends(outcome, Raise(cal_error, "HttpError"))
                           ELSE Continues(outcome))
                     ELSE IF cal_error = "CalendarAuthError"
                     THEN (IF locals.auth_retries >= _AUTH_RETRY_LIMIT
                           THEN Ends(outcome, Raise(cal_error, "HttpError"))
                           ELSE IF fn_args[2]
                           THEN /\ locals' = [locals EXCEPT
                                                 !.pc = "refresh",
                                                 !.auth_retries = @ + 1,
                                                 !.log = Append(@, outcome)]
                                /\ UNCHANGED <<returned, result>>
                           ELSE /\ locals' = [locals EXCEPT
                                                 !.attempt = @ + 1,
                                                 !.auth_retries = @ + 1,
                                                 !.log = Append(@, outcome)]
                                /\ UNCHANGED <<returned, result>>)
                     ELSE Ends(outcome, Raise(cal_error, "HttpError"))
    /\ UNCHANGED inputs

\* Lines 181-191: the call of _refresh_credentials, then `continue`.
RefreshCredentials ==
    /\ ~returned
    /\ locals.pc = "refresh"
    /\ \/ /\ locals' = [locals EXCEPT !.pc = "for", !.attempt = @ + 1,
                                      !.log = Append(@, Refreshed)]
          /\ UNCHANGED <<returned, result>>
       \/ Ends(RefreshFailed, Raise("CalendarAuthError", "Token refresh failed"))
    /\ UNCHANGED inputs

\* Line 219: the for loop has run out of attempts.
LoopExhausted ==
    /\ call = "with_retry"
    /\ ~returned
    /\ locals.pc = "for"
    /\ locals.attempt > fn_args[1]
    /\ returned' = TRUE
    /\ result' = Raise("CalendarAPIError", "Retry loop exhausted unexpectedly")
    /\ locals' = [locals EXCEPT !.pc = "done"]
    /\ UNCHANGED inputs

NextRetry == WrapperAttempt \/ RefreshCredentials \/ LoopExhausted

SpecRetry == InitRetry /\ [][NextRetry]_vars

\* ------------------------------------------------------------------------
\* Specification of the attendee check: _assert_attendees_contain on any
\* short attendee list and any short list of required substrings
\* ------------------------------------------------------------------------
MaxAttendees == 2

AttendeePool == {"Alice", "Bob Smith"}

RequiredPool == {"", "ALICE", "Bob", "Dave"}

ListsOver(pool, n) == UNION {[1..k -> pool] : k \in 0..n}

InitAttendees ==
    /\ call = "_assert_attendees_contain"
    /\ returned = FALSE
    /\ result = NULL
    /\ cost_matrix = <<>>
    /\ actual_events = <<>>
    /\ expected_events = <<>>
    /\ tolerance_level = "moderate"
    /\ counts = <<0, 0, 0>>
    /\ calendar_context = <<>>
    /\ sample_scores = <<>>
    /\ fn_args \in ListsOver(AttendeePool, MaxAttendees)
                   \X ListsOver(RequiredPool, MaxAttendees)
    /\ locals = <<>>

AssertAttendeesContain ==
    /\ call = "_assert_attendees_contain"
    /\ ~returned
    /\ returned' = TRUE
    /\ result' = _assert_attendees_contain(fn_args[1], fn_args[2])
    /\ UNCHANGED args

SpecAttendees == InitAttendees /\ [][AssertAttendeesContain]_vars

\* ------------------------------------------------------------------------
\* Specification of the aggregator: aggregate_scores and
\* calibrate_confidence on any short list of sample scores
\* ------------------------------------------------------------------------
CountPool == {<<0, 0, 0>>, <<1, 0, 0>>, <<1, 3, 0>>, <<0, 0, 2>>}

\* Sample scores as the aggregator reads them: a category and counts.
AggregateSamplePool ==
    {SampleScore(c, "moderate", t[1], t[2], t[3], <<>>) :
        c \in {"adversarial", "crud", "simple"}, t \in CountPool}

WithConfidence(conf) ==
    [ExtractedEvent("create", "Lunch", "2026-02-20T12:00:00", NULL)
        EXCEPT !.confidence = conf]

Reference == SidecarExpectedEvent("create", "Lunch", "2026-02-20T12:00:00", NULL)

\* Sample scores as the calibrator reads them: per-event records with and
\* without a candidate, at the three confidence levels.
CalibrateSamplePool ==
    { SampleScore("simple", "moderate", 1, 0, 0,
          <<EventMatchDetail("tp", WithConfidence("high"), Reference, <<>>)>>),
      SampleScore("simple", "moderate", 0, 1, 1,
          <<EventMatchDetail("fp", WithConfidence("high"), Reference,
                             <<<<"title", "ratio below title_ratio_min">>>>),
            EventMatchDetail("fn", NoEvent, Reference,
                             <<<<"title", "ratio below title_ratio_min">>>>)>>),
      SampleScore("crud", "moderate", 0, 0, 1,
          <<EventMatchDetail("fn", NoEvent, Reference, <<>>)>>),
      SampleScore("crud", "moderate", 0, 1, 0,
          <<EventMatchDetail("fp", WithConfidence("medium"), NoEvent, <<>>)>>),
      SampleScore("crud", "moderate", 2, 0, 0,
          <<EventMatchDetail("tp", WithConfidence("low"), Reference, <<>>),
            EventMatchDetail("tp", WithConfidence("medium"), Reference, <<>>)>>) }

InitAggregate ==
    /\ call = "aggregate_scores"
    /\ returned = FALSE
    /\ result = NULL
    /\ cost_matrix = <<>>
    /\ actual_events = <<>>
    /\ expected_events = <<>>
    /\ tolerance_level = "moderate"
    /\ counts = <<0, 0, 0>>
    /\ calendar_context = <<>>
    /\ sample_scores \in SeqsUpTo(AggregateSamplePool, MaxSamples)
    /\ fn_args = <<NULL, NULL>>
    /\ locals = <<>>

InitCalibrate ==
    /\ call = "calibrate_confidence"
    /\ returned = FALSE
    /\ result = NULL
    /\ cost_matrix = <<>>
    /\ actual_events = <<>>
    /\ expected_events = <<>>
    /\ tolerance_level = "moderate"
    /\ counts = <<0, 0, 0>>
    /\ calendar_context = <<>>
    /\ sample_scores \in SeqsUpTo(CalibrateSamplePool, MaxSamples)
    /\ fn_args = <<NULL, NULL>>
    /\ locals = <<>>

AggregateScores ==
    /\ call = "aggregate_scores"
    /\ ~returned
    /\ returned' = TRUE
    /\ result' = aggregate_scores(sample_scores)
    /\ UNCHANGED args

CalibrateConfidence ==
    /\ call = "calibrate_confidence"
    /\ ~returned
    /\ returned' = TRUE
    /\ result' = calibrate_confidence(sample_scores)
    /\ UNCHANGED args

InitAggregator == InitAggregate \/ InitCalibrate

NextAggregator == AggregateScores \/ CalibrateConfidence

SpecAggregate == InitAggregator /\ [][NextAggregator]_vars

\* ------------------------------------------------------------------------
\* Claims about the assignment solver (checked under SpecMatch)
\* ------------------------------------------------------------------------
NRows == Len(cost_matrix)

NCols == IF cost_matrix = <<>> THEN 0 ELSE Len(cost_matrix[1])

HungarianReturned == call = "_hungarian_assignment" /\ returned

BestMatchReturned == call = "_best_match_pairs" /\ returned

\* C5: _hungarian_assignment on an n x m matrix returns exactly min(n, m)
\* pairs (row, col) with 0 <= row < n and 0 <= col < m, the empty list when
\* n = 0 or m = 0, and so _best_match_pairs returns at most
\* min(|candidates|, |references|) pairs.
C5_PairCountAndRange ==
    /\ HungarianReturned =>
         /\ Len(result) = Min2(NRows, NCols)
         /\ \A k \in 1..Len(result) :
              /\ 0 <= result[k][1] /\ result[k][1] < NRows
              /\ 0 <= result[k][2] /\ result[k][2] < NCols
         /\ (NRows = 0 \/ NCols = 0) => result = <<>>
    /\ BestMatchReturned =>
         Len(result) <= Min2(Len(actual_events), Len(expected_events))

\* C5 witness: a 2 x 3 matrix (one padded row) whose result has
\* min(n, m) = 2 pairs.
C5_Witness ==
    /\ HungarianReturned
    /\ NRows = 2 /\ NCols = 3
    /\ Len(result) = 2

\* C6: no row index and no column index appears in two returned pairs.
C6_Injective ==
    (returned /\ call \in {"_hungarian_assignment", "_best_match_pairs"}) =>
        LET pairs == IF call = "_hungarian_assignment" THEN result
                     ELSE _hungarian_assignment(
                              CostMatrix(actual_events, expected_events))
        IN /\ call = "_best_match_pairs" => Len(result) = Len(pairs)
           /\ \A k, l \in 1..Len(pairs) :
                k # l => /\ pairs[k][1] # pairs[l][1]
                         /\ pairs[k][2] # pairs[l][2]

\* C6 witness: a 2 x 2 matrix in which both rows prefer column 0, so the
\* second row's augmenting path has to move the first row.
C6_Witness ==
    /\ HungarianReturned
    /\ cost_matrix = <<<<0, 20>>, <<0, 40>>>>
    /\ Len(result) = 2

\* Total cost of a list of (row, col) pairs.
RECURSIVE PairsCost(_, _)
PairsCost(matrix, pairs) ==
    IF pairs = <<>> THEN 0
    ELSE matrix[Head(pairs)[1] + 1][Head(pairs)[2] + 1]
         + PairsCost(matrix, Tail(pairs))

\* Brute force: every injective assignment of min(n, m) rows to columns,
\* as a list of 0-based (row, col) pairs.
Injections(k, S) ==
    {f \in [1..k -> S] : \A a, b \in 1..k : a # b => f[a] # f[b]}

AllAssignments(n, m) ==
    IF n <= m
    THEN {[i \in 1..n |-> <<i - 1, f[i] - 1>>] : f \in Injections(n, 1..m)}
    ELSE {[j \in 1..m |-> <<g[j] - 1, j - 1>>] : g \in Injections(m, 1..n)}

\* C7: the total cost of the returned pairs is the minimum over all
\* injective assignments of min(n, m) rows to columns.
C7_MinimumCost ==
    (HungarianReturned /\ NRows > 0 /\ NCols > 0) =>
        \A a \in AllAssignments(NRows, NCols) :
            PairsCost(cost_matrix, result) <= PairsCost(cost_matrix, a)

\* C7 witness: the 1 x 3 matrix whose cheapest column is the middle one.
C7_Witness ==
    /\ HungarianReturned
    /\ cost_matrix = <<<<40, 0, 20>>>>
    /\ result = <<<<0, 1>>>>

\* ------------------------------------------------------------------------
\* Claims about scoring mode (checked under Spec)
\* ------------------------------------------------------------------------
ScoreEnded == call = "score_sample" /\ returned

\* score_sample has returned a SampleScore.
ScoreReturned == ScoreEnded /\ "raised" \notin DOMAIN result

PRFReturned == call = "_compute_prf" /\ returned

\* Every reordering of a list.
Perms(s) ==
    {[i \in 1..Len(s) |-> s[f[i]]] : f \in Injections(Len(s), 1..Len(s))}

\* Number of records of a details list that satisfy P.
Count(details, P(_)) == Cardinality({i \in 1..Len(details) : P(details[i])})

\* Same multiset of classification records and same tp / fp / fn.
SameScore(a, b) ==
    /\ SeqToBag(a.per_event_details) = SeqToBag(b.per_event_details)
    /\ a.tp = b.tp /\ a.fp = b.fp /\ a.fn = b.fn

\* score_sample gives the same score on every reordering of the two lists
\* of the current call.
OrderIndependent ==
    \A pa \in Perms(actual_events), pe \in Perms(expected_events) :
        SameScore(score_sample(pa, pe, tolerance_level, "uncategorized"), result)

\* The (candidate, reference) value pairs of each minimum-cost assignment,
\* by brute force over all assignments.
OptimalPairings(actual_events_, expected_events_) ==
    LET matrix == CostMatrix(actual_events_, expected_events_)
        all == AllAssignments(Len(actual_events_), Len(expected_events_))
        best == {p \in all : \A q \in all :
                    PairsCost(matrix, p) <= PairsCost(matrix, q)}
    IN {SeqToBag([k \in 1..Len(p) |->
                    <<actual_events_[p[k][1] + 1], expected_events_[p[k][2] + 1]>>])
        : p \in best}

UniqueOptimum ==
    Cardinality(OptimalPairings(actual_events, expected_events)) = 1

\* C1 as stated: for any candidate list, reference list and tolerance
\* level, permuting the candidates and/or the references yields the same
\* multiset of classification records and the same tp / fp / fn.
C1_OrderIndependent_Stated == ScoreReturned => OrderIndependent

\* C1 as amended: when all minimum-cost assignments pair the same
\* (candidate, reference) values, i.e. no tie between different pairings,
\* permuting the candidates and/or the references yields the same multiset
\* of classification records and the same tp / fp / fn.
C1_OrderIndependent_NoTies ==
    (ScoreReturned /\ UniqueOptimum) => OrderIndependent

\* C1 witness: two different candidates against their references in the
\* opposite order, with a single minimum-cost pairing.
C1_Witness ==
    /\ ScoreReturned
    /\ UniqueOptimum
    /\ Len(actual_events) = 2 /\ Len(expected_events) = 2
    /\ actual_events[1].title = "Lunch" /\ actual_events[2].title = "Gym"
    /\ expected_events[1].title = "Gym" /\ expected_events[2].title = "Lunch"
    /\ result.tp >= 1

\* The (row, col) pairs, 0-based, the solver selected for the current call.
SolverAssignment ==
    IF actual_events = <<>> \/ expected_events = <<>> THEN <<>>
    ELSE _hungarian_assignment(CostMatrix(actual_events, expected_events))

\* The indices (1-based) of candidates and of references in an assignment.
SelectedActual(assignment) ==
    {assignment[k][1] + 1 : k \in 1..Len(assignment)}

SelectedExpected(assignment) ==
    {assignment[k][2] + 1 : k \in 1..Len(assignment)}

IsUnmatchedFp(r) ==
    r.classification = "fp" /\ r.expected_event = NoEvent /\ r.mismatch_reasons = <<>>

IsUnmatchedFn(r) ==
    r.classification = "fn" /\ r.actual_event = NoEvent /\ r.mismatch_reasons = <<>>

\* C2: a candidate gets an unmatched 'fp' record (no reference, no reasons)
\* iff its index was not selected by the solver, a reference an unmatched
\* 'fn' record (no candidate) iff its index was not selected: for every
\* event value there are exactly as many such records as unselected indices
\* holding it.
C2_UnmatchedIffUnselected ==
    ScoreReturned =>
        LET unselectedActual ==
                1..Len(actual_events) \ SelectedActual(SolverAssignment)
            unselectedExpected ==
                1..Len(expected_events) \ SelectedExpected(SolverAssignment)
        IN /\ \A i \in 1..Len(actual_events) :
                LET IsRec(r) == IsUnmatchedFp(r) /\ r.actual_event = actual_events[i]
                IN Count(result.per_event_details, IsRec)
                   = Cardinality({k \in unselectedActual :
                                     actual_events[k] = actual_events[i]})
           /\ \A j \in 1..Len(expected_events) :
                LET IsRec(r) == IsUnmatchedFn(r) /\ r.expected_event = expected_events[j]
                IN Count(result.per_event_details, IsRec)
                   = Cardinality({k \in unselectedExpected :
                                     expected_events[k] = expected_events[j]})
           /\ Count(result.per_event_details, IsUnmatchedFp)
              = Cardinality(unselectedActual)
           /\ Count(result.per_event_details, IsUnmatchedFn)
              = Cardinality(unselectedExpected)

\* The pairs of an assignment as (candidate, reference, reasons): the two
\* events and the classifier's verdict on them.
ClassifiedPairs(assignment) ==
    LET Pair(k) == <<actual_events[assignment[k][1] + 1],
                     expected_events[assignment[k][2] + 1]>>
        Classified(k) == <<Pair(k)[1], Pair(k)[2],
                           _check_event_match(Pair(k)[1], Pair(k)[2],
                                              tolerance_level)>>
        RECURSIVE From(_)
        From(k) == IF k > Len(assignment) THEN <<>>
                   ELSE <<Classified(k)>> \o From(k + 1)
    IN From(1)

MatchedPairs(pairs) == {k \in 1..Len(pairs) : pairs[k][3] = <<>>}

MismatchedPairs(pairs) == {k \in 1..Len(pairs) : pairs[k][3] # <<>>}

\* The records of `details` are what the classified solver pairs call for.
PairRecordsAgree(details, pairs) ==
    /\ \A k \in 1..Len(pairs) :
         LET a == pairs[k][1]
             e == pairs[k][2]
             reasons == pairs[k][3]
             same == {l \in 1..Len(pairs) : pairs[l] = pairs[k]}
             sameFn == {l \in 1..Len(pairs) :
                           pairs[l][2] = e /\ pairs[l][3] = reasons}
             IsTp(r) == /\ r.classification = "tp"
                        /\ r.actual_event = a /\ r.expected_event = e
             IsFp(r) == /\ r.classification = "fp"
                        /\ r.actual_event = a /\ r.expected_event = e
             IsFn(r) == /\ r.classification = "fn"
                        /\ r.actual_event = NoEvent /\ r.expected_event = e
                        /\ r.mismatch_reasons = reasons
         IN IF reasons = <<>>
            THEN /\ Count(details, IsTp) = Cardinality(same)
                 /\ Count(details, IsFp) = 0
            ELSE /\ Count(details, IsTp) = 0
                 /\ Count(details, IsFp) = Cardinality(same)
                 /\ Count(details, IsFn) = Cardinality(sameFn)
                 /\ \A i \in 1..Len(details) :
                      IsFp(details[i]) => details[i].mismatch_reasons = reasons
    /\ LET HasReasons(r) == r.mismatch_reasons # <<>>
           IsTpRec(r) == r.classification = "tp"
       IN /\ Count(details, IsTpRec) = Cardinality(MatchedPairs(pairs))
          /\ Count(details, HasReasons) = 2 * Cardinality(MismatchedPairs(pairs))

\* C3: every pair returned by the solver produces exactly one 'tp' record
\* when the classifier returns no reasons, and otherwise exactly one 'fp'
\* record carrying the candidate and one 'fn' record carrying the reference
\* and no candidate, both with the classifier's reasons; a mismatched pair
\* adds 1 to fp, 1 to fn and 0 to tp.
C3_PairRecords ==
    ScoreReturned =>
        LET pairs == ClassifiedPairs(SolverAssignment)
        IN /\ PairRecordsAgree(result.per_event_details, pairs)
           /\ result.tp = Cardinality(MatchedPairs(pairs))
           /\ result.fp = Cardinality(MismatchedPairs(pairs))
                          + Count(result.per_event_details, IsUnmatchedFp)
           /\ result.fn = Cardinality(MismatchedPairs(pairs))
                          + Count(result.per_event_details, IsUnmatchedFn)

\* C3 witness: a call whose solver pairs include one the classifier accepts
\* and one it rejects.
C3_Witness ==
    /\ ScoreReturned
    /\ LET pairs == ClassifiedPairs(SolverAssignment)
       IN MatchedPairs(pairs) # {} /\ MismatchedPairs(pairs) # {}
    /\ result.tp = 1 /\ result.fp = 1 /\ result.fn = 1

\* Fractions <<n, d>> as numbers.
FracEq(x, y) == x[1] * y[2] = y[1] * x[2]

\* P, R, F are the precision, recall and F1 the formulas give for the counts.
IsPRF(tp, fp, fn_, P, R, F) ==
    /\ P[2] > 0 /\ R[2] > 0 /\ F[2] > 0
    /\ IF tp + fp > 0 THEN FracEq(P, <<tp, tp + fp>>) ELSE FracEq(P, <<1, 1>>)
    /\ IF tp + fn_ > 0 THEN FracEq(R, <<tp, tp + fn_>>) ELSE FracEq(R, <<1, 1>>)
    /\ IF P[1] > 0 \/ R[1] > 0
       THEN FracEq(F, <<2 * P[1] * R[1], P[1] * R[2] + R[1] * P[2]>>)
       ELSE FracEq(F, <<0, 1>>)

\* C4: _compute_prf returns precision = tp/(tp+fp) if tp+fp > 0 else 1,
\* recall = tp/(tp+fn) if tp+fn > 0 else 1, f1 = 2PR/(P+R) if P+R > 0 else 0;
\* (0,0,0) gives (1,1,1), (0,0,k) gives (1,0,0), (0,k,0) gives (0,1,0) for
\* k > 0; and the precision / recall / f1 of a SampleScore returned by
\* score_sample are the formulas applied to its own tp / fp / fn.
C4_PrecisionRecallF1 ==
    /\ PRFReturned =>
         /\ IsPRF(counts[1], counts[2], counts[3], result[1], result[2], result[3])
         /\ counts = <<0, 0, 0>> => result = <<<<1, 1>>, <<1, 1>>, <<1, 1>>>>
         /\ (counts[1] = 0 /\ counts[2] = 0 /\ counts[3] > 0)
              => result = <<<<1, 1>>, <<0, 1>>, <<0, 1>>>>
         /\ (counts[1] = 0 /\ counts[2] > 0 /\ counts[3] = 0)
              => result = <<<<0, 1>>, <<1, 1>>, <<0, 1>>>>
    /\ ScoreReturned =>
         IsPRF(result.tp, result.fp, result.fn,
               result.precision, result.recall, result.f1)

\* C4 witness: _compute_prf(0, 0, 3) has returned (1, 0, 0).
C4_Witness ==
    /\ PRFReturned
    /\ counts = <<0, 0, 3>>
    /\ result = <<<<1, 1>>, <<0, 1>>, <<0, 1>>>>

\* One candidate against one reference with the same action, title and
\* start_time, under the strict profile.
StrictIdenticalPair ==
    /\ ScoreReturned
    /\ tolerance_level = "strict"
    /\ Len(actual_events) = 1 /\ Len(expected_events) = 1
    /\ actual_events[1].action = expected_events[1].action
    /\ actual_events[1].title = expected_events[1].title
    /\ actual_events[1].start_time = expected_events[1].start_time

IsSingleTP == result.tp = 1 /\ result.fp = 0 /\ result.fn = 0

EndTimeAgrees ==
    LET a == actual_events[1].end_time
        e == expected_events[1].end_time
    IN \/ e = NULL
       \/ /\ a # NULL
          /\ fromisoformat(a).ok /\ fromisoformat(e).ok
          /\ Abs(fromisoformat(a).minutes - fromisoformat(e).minutes)
               <= THRESHOLDS["strict"].time_tolerance

AssertReturned == call = "assert_extraction_result" /\ returned

CountCheckPassed ==
    Abs(Len(actual_events) - Len(expected_events))
        <= THRESHOLDS[tolerance_level].event_count_tolerance

\* Events the solver leaves unmatched: the lists differ in length.
Residue == Abs(Len(actual_events) - Len(expected_events))

\* The violations of each pair of an assignment, in the solver's order.
ViolationsByPair(assignment) ==
    LET RECURSIVE From(_)
        From(k) ==
            IF k > Len(assignment) THEN <<>>
            ELSE <<PairErrors(actual_events[assignment[k][1] + 1],
                              expected_events[assignment[k][2] + 1],
                              tolerance_level, calendar_context)>>
                 \o From(k + 1)
    IN From(1)

RECURSIVE Flatten(_)
Flatten(lists) ==
    IF lists = <<>> THEN <<>> ELSE Head(lists) \o Flatten(Tail(lists))

CountTolerance(level) ==
    CASE level = "strict" -> 0
      [] level = "moderate" -> 1
      [] level = "relaxed" -> 2

\* C11: assert_extraction_result raises the event-count-mismatch error,
\* with no pair classified, iff |len(actual) - len(expected)| is strictly
\* greater than the profile's event_count_tolerance (0 strict, 1 moderate,
\* 2 relaxed); within tolerance no count error is raised.
C11_CountPreCheck ==
    AssertReturned =>
        /\ (result.raised /\ result.message = "Event count mismatch")
             <=> Residue > CountTolerance(tolerance_level)
        /\ result.message = "Event count mismatch" =>
             result.errors = <<>> /\ result.issues = 0

\* C11 witness: three candidates against no reference at the relaxed level:
\* the difference 3 exceeds 2 and the count error is raised.
C11_Witness ==
    /\ AssertReturned
    /\ tolerance_level = "relaxed"
    /\ Len(actual_events) = 3 /\ Len(expected_events) = 0
    /\ result.raised /\ result.message = "Event count mismatch"

\* ------------------------------------------------------------------------
\* Claims about the aggregator (checked under SpecAggregate)
\* ------------------------------------------------------------------------
AggregateReturned == call = "aggregate_scores" /\ returned

CalibrateReturned == call = "calibrate_confidence" /\ returned

\* The sum of a count over the samples at the indices I, by counting units.
Total(samples, I, field) ==
    Cardinality({<<i, k>> \in I \X (1..MaxCount) :
                    k <= samples[i][field]})

\* Alphabetical position of the model's category names.
CategoryRank(c) ==
    CASE c = "adversarial" -> 1
      [] c = "crud" -> 2
      [] c = "simple" -> 3

\* C12: the overall tp / fp / fn are the sums of the samples' counts and
\* the overall precision / recall / f1 the formulas applied once to the sums;
\* the same inside each category, with exactly one entry per distinct
\* category in ascending name order; an empty list gives 0 / 0 / 0, 1 / 1 / 1
\* and sample_count = 0.
C12_MicroAverage ==
    AggregateReturned =>
        LET all == 1..Len(sample_scores)
            present == {sample_scores[i].category : i \in all}
            entries == result.per_category
        IN /\ result.overall_tp = Total(sample_scores, all, "tp")
           /\ result.overall_fp = Total(sample_scores, all, "fp")
           /\ result.overall_fn = Total(sample_scores, all, "fn")
           /\ IsPRF(result.overall_tp, result.overall_fp, result.overall_fn,
                    result.overall_precision, result.overall_recall,
                    result.overall_f1)
           /\ result.sample_count = Len(sample_scores)
           /\ Len(entries) = Cardinality(present)
           /\ {entries[k].category : k \in 1..Len(entries)} = present
           /\ \A k \in 1..(Len(entries) - 1) :
                CategoryRank(entries[k].category)
                    < CategoryRank(entries[k + 1].category)
           /\ \A k \in 1..Len(entries) :
                LET members == {i \in all :
                                   sample_scores[i].category = entries[k].category}
                IN /\ entries[k].tp = Total(sample_scores, members, "tp")
                   /\ entries[k].fp = Total(sample_scores, members, "fp")
                   /\ entries[k].fn = Total(sample_scores, members, "fn")
                   /\ entries[k].sample_count = Cardinality(members)
                   /\ IsPRF(entries[k].tp, entries[k].fp, entries[k].fn,
                            entries[k].precision, entries[k].recall,
                            entries[k].f1)
           /\ sample_scores = <<>> =>
                /\ result.overall_tp = 0 /\ result.overall_fp = 0
                /\ result.overall_fn = 0 /\ result.sample_count = 0
                /\ result.overall_precision = <<1, 1>>
                /\ result.overall_recall = <<1, 1>>
                /\ result.overall_f1 = <<1, 1>>

\* C12 witness: samples with precision 1 and 1/4 aggregate to 2/5 (their
\* mean is 5/8), and the category named second comes first.
C12_Witness ==
    /\ AggregateReturned
    /\ Len(sample_scores) = 2
    /\ sample_scores[1].category = "simple" /\ sample_scores[1].tp = 1
    /\ sample_scores[1].fp = 0
    /\ sample_scores[2].category = "crud" /\ sample_scores[2].tp = 1
    /\ sample_scores[2].fp = 3
    /\ result.overall_precision = <<2, 5>>
    /\ result.per_category[1].category = "crud"

\* The (sample, record) positions of the records that carry a candidate
\* with the given confidence.
CandidateRecords(conf) ==
    UNION {{<<i, j>> : j \in {j \in 1..Len(sample_scores[i].per_event_details) :
        /\ sample_scores[i].per_event_details[j].actual_event # NoEvent
        /\ sample_scores[i].per_event_details[j].actual_event.confidence = conf}} :
           i \in 1..Len(sample_scores)}

\* C13: calibrate_confidence considers exactly the records that carry a
\* candidate; for each level with at least one such record the accuracy is
\* (# of them classified tp) / (# of them), and a level with none has no key.
C13_Calibration ==
    CalibrateReturned =>
        /\ DOMAIN result \subseteq {"high", "medium", "low"}
        /\ \A conf \in {"high", "medium", "low"} :
             LET recs == CandidateRecords(conf)
                 correct == {r \in recs :
                    sample_scores[r[1]].per_event_details[r[2]].classification
                        = "tp"}
             IN IF recs = {} THEN conf \notin DOMAIN result
                ELSE /\ conf \in DOMAIN result
                     /\ FracEq(result[conf],
                               <<Cardinality(correct), Cardinality(recs)>>)

\* C13 witness: two "high" TP records, one "high" FP record and its FN
\* record: accuracy["high"] = 2/3 and no other key.
C13_Witness ==
    /\ CalibrateReturned
    /\ Len(sample_scores) = 3
    /\ Cardinality(CandidateRecords("high")) = 3
    /\ \E i \in 1..3 : \E j \in 1..Len(sample_scores[i].per_event_details) :
          sample_scores[i].per_event_details[j].actual_event = NoEvent
    /\ DOMAIN result = {"high"}
    /\ result["high"] = <<2, 3>>

\* The samples at the indices where `part` has the value k, in order.
Part(samples, part, k) ==
    LET RECURSIVE From(_)
        From(i) == IF i > Len(samples) THEN <<>>
                   ELSE (IF part[i] = k THEN <<samples[i]>> ELSE <<>>)
                        \o From(i + 1)
    IN From(1)

\* The partitions of n positions into at most three parts, each written once:
\* parts are numbered in the order of their first member.
Partitions(n) ==
    {part \in [1..n -> 1..3] :
        \A i \in 1..n : \A k \in 2..3 :
            part[i] = k => \E j \in 1..(i - 1) : part[j] = k - 1}

\* tp, fp, fn of a category in an aggregate, 0 when it has no entry.
CategoryCounts(aggregate, c) ==
    LET hits == {k \in 1..Len(aggregate.per_category) :
                    aggregate.per_category[k].category = c}
    IN IF hits = {} THEN <<0, 0, 0>>
       ELSE LET e == aggregate.per_category[CHOOSE k \in hits : TRUE]
            IN <<e.tp, e.fp, e.fn>>

\* C15: aggregate_scores over any permutation of the samples gives the
\* same overall and per-category counts and metrics, and adding up the
\* tp / fp / fn of the aggregates of the parts of any partition, then applying
\* the formulas once, gives the result of aggregating all samples in one call.
C15_OrderAndPartition ==
    AggregateReturned =>
        /\ \A p \in Perms(sample_scores) : aggregate_scores(p) = result
        /\ \A part \in Partitions(Len(sample_scores)) :
             LET a == aggregate_scores(Part(sample_scores, part, 1))
                 b == aggregate_scores(Part(sample_scores, part, 2))
                 c == aggregate_scores(Part(sample_scores, part, 3))
                 tp == a.overall_tp + b.overall_tp + c.overall_tp
                 fp == a.overall_fp + b.overall_fp + c.overall_fp
                 fn_ == a.overall_fn + b.overall_fn + c.overall_fn
             IN /\ <<tp, fp, fn_>> = <<result.overall_tp, result.overall_fp,
                                       result.overall_fn>>
                /\ _compute_prf(tp, fp, fn_)
                   = <<result.overall_precision, result.overall_recall,
                       result.overall_f1>>
                /\ \A k \in 1..Len(result.per_category) :
                     LET e == result.per_category[k]
                         x == CategoryCounts(a, e.category)
                         y == CategoryCounts(b, e.category)
                         z == CategoryCounts(c, e.category)
                     IN /\ e.tp = x[1] + y[1] + z[1]
                        /\ e.fp = x[2] + y[2] + z[2]
                        /\ e.fn = x[3] + y[3] + z[3]
                        /\ _compute_prf(e.tp, e.fp, e.fn)
                           = <<e.precision, e.recall, e.f1>>

\* C15 witness: three samples of two categories, the later name first.
C15_Witness ==
    /\ AggregateReturned
    /\ Len(sample_scores) = 3
    /\ sample_scores[1].category = "simple"
    /\ sample_scores[2].category = "crud"
    /\ sample_scores[3].category = "simple"
    /\ sample_scores[1].tp + sample_scores[3].tp = 2
    /\ Len(result.per_category) = 2
    /\ result.per_category[2].tp = 2

C16_EmptyIffTP_Stated ==
    ScoreReturned =>
        \A i \in 1..Len(result.per_event_details) :
            result.per_event_details[i].mismatch_reasons = <<>>
                <=> result.per_event_details[i].classification = "tp"

\* Record i of `details` is one of the two records of a mismatched pair: the
\* 'fp' record that carries a reference, or the 'fn' record appended right
\* after it for the same reference.
IsMismatchedPairRecord(details, i) ==
    \/ /\ details[i].classification = "fp"
       /\ details[i].expected_event # NoEvent
    \/ /\ details[i].classification = "fn"
       /\ i > 1
       /\ details[i - 1].classification = "fp"
       /\ details[i - 1].expected_event = details[i].expected_event

\* C16: a record's mismatch_reasons is empty iff the record is TP or the
\* record of an unmatched event ('fp' without reference, 'fn' outside a
\* pair); the two records of a mismatched pair carry the same non-empty list.
C16_EmptyIffNotMismatchedPair ==
    ScoreReturned =>
        LET details == result.per_event_details
        IN \A i \in 1..Len(details) :
             /\ details[i].mismatch_reasons = <<>>
                    <=> ~IsMismatchedPairRecord(details, i)
             /\ details[i].classification = "tp"
                    => details[i].mismatch_reasons = <<>>
             /\ (details[i].classification = "fn"
                    /\ IsMismatchedPairRecord(details, i))
                    => details[i].mismatch_reasons
                       = details[i - 1].mismatch_reasons

\* C16 witness: a mismatched pair (two records with reasons) followed by
\* the 'fp' record of an unmatched candidate (no reasons).
C16_Witness ==
    /\ ScoreReturned
    /\ Len(result.per_event_details) = 3
    /\ result.per_event_details[1].classification = "fp"
    /\ result.per_event_details[1].mismatch_reasons # <<>>
    /\ result.per_event_details[2].classification = "fn"
    /\ result.per_event_details[2].mismatch_reasons # <<>>
    /\ result.per_event_details[3].classification = "fp"
    /\ result.per_event_details[3].expected_event = NoEvent
    /\ result.per_event_details[3].mismatch_reasons = <<>>

\* C20: the counts of a SampleScore satisfy tp + fp = len(actual_events) and
\* tp + fn = len(expected_events): each candidate is counted once, as TP or
\* FP, and each reference once, as TP or FN, value-equal events included.
C20_CountsMatchLengths ==
    ScoreReturned =>
        /\ result.tp + result.fp = Len(actual_events)
        /\ result.tp + result.fn = Len(expected_events)

\* C18 (scoring mode): when the reference of a matched pair has
\* existing_event_id_required, the pair fails unless the candidate's
\* existing_event_id is non-null and lies in 1..N, N the number of
\* calendar-context entries: no 'tp' record pairs such a reference with a
\* candidate whose id is null or outside 1..N.
C18_RequiredIdChecked ==
    ScoreReturned =>
        \A i \in 1..Len(result.per_event_details) :
            LET r == result.per_event_details[i]
            IN (r.classification = "tp"
                    /\ r.expected_event.existing_event_id_required)
               => /\ r.actual_event.existing_event_id # <<>>
                  /\ r.actual_event.existing_event_id[1]
                        \in 1..Len(calendar_context)

\* ------------------------------------------------------------------------
\* Claims about the classification rules in both modes (checked under
\* SpecClassify)
\* ------------------------------------------------------------------------
ExactTitleFails(actual, expected) ==
    strip_lower(actual.title) # strip_lower(expected.title)

FuzzyTitleFails(actual, expected, level) ==
    token_set_ratio(actual.title, expected.title)
        < THRESHOLDS[level].title_ratio_min

\* Number of entries of a list of reasons or violations that are about the
\* title.
TitleFailures(reasons) ==
    Cardinality({k \in 1..Len(reasons) : reasons[k][1] = "title"})

\* In scoring mode every record of a matched pair whose actions agree
\* carries a title reason iff TitleFails holds of the pair.
ScoreTitleCheckIs(TitleFails(_, _)) ==
    \A i \in 1..Len(result.per_event_details) :
        LET r == result.per_event_details[i]
        IN (r.actual_event # NoEvent /\ r.expected_event # NoEvent
                /\ r.actual_event.action = r.expected_event.action)
           => (TitleFailures(r.mismatch_reasons) = 1
                  <=> TitleFails(r.actual_event, r.expected_event))

\* In assertion mode the error lists one title violation for each solver
\* pair whose actions agree and of which TitleFails holds.
AssertTitleCheckIs(assignment, TitleFails(_, _)) ==
    TitleFailures(result.errors)
    = Cardinality({k \in 1..Len(assignment) :
          LET a == actual_events[assignment[k][1] + 1]
              e == expected_events[assignment[k][2] + 1]
          IN a.action = e.action /\ TitleFails(a, e)})

\* C19 as stated: under strict the title check of a matched pair passes iff
\* the titles are equal after strip and case-folding, in score_sample and in
\* assert_extraction_result alike; the fuzzy rule is used only under
\* moderate and relaxed.
C19_StrictExact_Stated ==
    LET Fuzzy(a, e) == FuzzyTitleFails(a, e, tolerance_level)
    IN /\ ScoreReturned =>
            IF tolerance_level = "strict"
            THEN ScoreTitleCheckIs(ExactTitleFails)
            ELSE ScoreTitleCheckIs(Fuzzy)
       /\ (AssertReturned /\ CountCheckPassed) =>
            IF tolerance_level = "strict"
            THEN AssertTitleCheckIs(SolverAssignment, ExactTitleFails)
            ELSE AssertTitleCheckIs(SolverAssignment, Fuzzy)

\* C19 as amended: score_sample checks the title exactly (after strip and
\* case-folding) under strict and by fuzzy similarity >= title_ratio_min
\* under moderate and relaxed; assert_extraction_result checks it by fuzzy
\* similarity >= title_ratio_min under every profile, strict (95) included.
C19_StrictExactInScoringOnly ==
    LET Fuzzy(a, e) == FuzzyTitleFails(a, e, tolerance_level)
    IN /\ ScoreReturned =>
            IF tolerance_level = "strict"
            THEN ScoreTitleCheckIs(ExactTitleFails)
            ELSE ScoreTitleCheckIs(Fuzzy)
       /\ (AssertReturned /\ CountCheckPassed) =>
            AssertTitleCheckIs(SolverAssignment, Fuzzy)

\* C19 witness: at strict, assert_extraction_result accepts the pair
\* "Lunch Break" / "Lunch" (similarity 100, not equal after strip and
\* case-folding).
C19_Witness ==
    /\ AssertReturned
    /\ tolerance_level = "strict"
    /\ Len(actual_events) = 1 /\ Len(expected_events) = 1
    /\ actual_events[1].action = expected_events[1].action
    /\ actual_events[1].title = "Lunch Break"
    /\ expected_events[1].title = "Lunch"
    /\ ~result.raised

\* ------------------------------------------------------------------------
\* Further claims about the matcher (checked under SpecMatch)
\* ------------------------------------------------------------------------
\* All pairwise start-time distances are equal.
TimeHeldAside ==
    \A i, k \in 1..Len(actual_events) : \A j, l \in 1..Len(expected_events) :
        _time_distance(actual_events[i].start_time, expected_events[j].start_time)
        = _time_distance(actual_events[k].start_time, expected_events[l].start_time)

\* Number of pairs of an assignment (0-based index pairs) whose actions differ.
ActionMismatches(assignment) ==
    Cardinality({k \in 1..Len(assignment) :
        actual_events[assignment[k][1] + 1].action
            # expected_events[assignment[k][2] + 1].action})

\* Sum of the title distances of the pairs of an assignment.
RECURSIVE TitleCost(_)
TitleCost(assignment) ==
    IF assignment = <<>> THEN 0
    ELSE _title_distance(actual_events[Head(assignment)[1] + 1].title,
                         expected_events[Head(assignment)[2] + 1].title)
         + TitleCost(Tail(assignment))

\* C17: with all pairwise start-time distances equal, the pairs returned by
\* _best_match_pairs hold as few action mismatches as any matching of
\* min(n, m) pairs: closer titles never buy an additional action mismatch.
C17_ActionDominates ==
    (BestMatchReturned /\ TimeHeldAside
        /\ actual_events # <<>> /\ expected_events # <<>>) =>
        LET mismatched == Cardinality({k \in 1..Len(result) :
                              result[k][1].action # result[k][2].action})
        IN \A a \in AllAssignments(Len(actual_events), Len(expected_events)) :
              mismatched <= ActionMismatches(a)

\* C17 witness: the pairing with the closer titles (distance 0 against 200)
\* has two action mismatches, and the pairs returned have none.
C17_Witness ==
    /\ BestMatchReturned
    /\ TimeHeldAside
    /\ Len(actual_events) = 2 /\ Len(expected_events) = 2
    /\ \E a \in AllAssignments(2, 2) :
          /\ ActionMismatches(a) = 2
          /\ TitleCost(a) = 0
    /\ \A k \in 1..2 : /\ result[k][1].action = result[k][2].action
                       /\ _title_distance(result[k][1].title,
                                          result[k][2].title) = 100

\* ------------------------------------------------------------------------
\* Further claims about assertion mode (checked under SpecAssert)
\* ------------------------------------------------------------------------
\* The inputs on which the two modes share their rules: lists of equal
\* length, no delete action, no existing-id, attendee or location
\* requirement, and a moderate or relaxed profile.
SharedCore ==
    /\ Len(actual_events) = Len(expected_events)
    /\ tolerance_level \in {"moderate", "relaxed"}
    /\ \A i \in 1..Len(actual_events) : actual_events[i].action # "delete"
    /\ \A j \in 1..Len(expected_events) :
         /\ expected_events[j].action # "delete"
         /\ ~expected_events[j].existing_event_id_required
         /\ expected_events[j].attendees_contain = <<>>
         /\ expected_events[j].location = NULL

\* score_sample has returned a score with fp + fn > 0.
ReportsFailure(score) ==
    /\ "raised" \notin DOMAIN score
    /\ score.fp + score.fn > 0

\* C21: on the shared core, assert_extraction_result raises iff score_sample
\* on the same lists and profile reports fp + fn > 0.
C21_ModesAgree ==
    (AssertReturned /\ SharedCore) =>
        (result.raised
            <=> ReportsFailure(score_sample(actual_events, expected_events,
                                            tolerance_level, "uncategorized")))

\* ------------------------------------------------------------------------
\* Further claims about the classification rules in both modes (checked
\* under SpecClassify)
\* ------------------------------------------------------------------------
\* Number of entries of a list of reasons or violations with a given label.
Labelled(reasons, label) ==
    Cardinality({k \in 1..Len(reasons) : reasons[k][1] = label})

\* A time check fails: the reference value is present and the candidate
\* value is missing, or one of them does not parse, or they differ by more
\* than the tolerance.
TimeCheckFails(actual_iso, expected_iso, tolerance) ==
    /\ expected_iso # NULL
    /\ \/ actual_iso = NULL
       \/ ~fromisoformat(actual_iso).ok
       \/ ~fromisoformat(expected_iso).ok
       \/ Abs(fromisoformat(actual_iso).minutes
              - fromisoformat(expected_iso).minutes) > tolerance

\* Does the check with the given label fail for the pair (a, e) in scoring
\* mode?
ScoreCheckFails(label, a, e, level) ==
    CASE label = "title" ->
            IF level = "strict" THEN ExactTitleFails(a, e)
            ELSE FuzzyTitleFails(a, e, level)
      [] label = "start_time" ->
            TimeCheckFails(a.start_time, e.start_time,
                           THRESHOLDS[level].time_tolerance)
      [] label = "end_time" ->
            TimeCheckFails(a.end_time, e.end_time,
                           THRESHOLDS[level].time_tolerance)

\* Does the check with the given label fail for the pair (a, e) in
\* assertion mode?
AssertCheckFails(label, a, e, level, context) ==
    CASE label = "title" -> FuzzyTitleFails(a, e, level)
      [] label = "start_time" ->
            TimeCheckFails(a.start_time, ExpectedTimes(a, e, context)[1],
                           THRESHOLDS[level].time_tolerance)
      [] label = "end_time" ->
            TimeCheckFails(a.end_time, ExpectedTimes(a, e, context)[2],
                           THRESHOLDS[level].time_tolerance)
      [] label = "existing_event_id" ->
            /\ e.existing_event_id_required
            /\ \/ a.existing_event_id = <<>>
               \/ a.existing_event_id[1] \notin 1..Len(context)
      [] label = "attendees" ->
            \E r \in 1..Len(e.attendees_contain) :
                \A i \in 1..Len(a.attendees) :
                    ~IsSubstring(lower(e.attendees_contain[r]),
                                 lower(a.attendees[i]))
      [] label = "location" ->
            /\ e.location # NULL
            /\ token_set_ratio(IF a.location = NULL THEN "" ELSE a.location,
                               e.location)
                   < THRESHOLDS[level].title_ratio_min

ScoreLabels == {"title", "start_time", "end_time"}

AssertLabels ==
    {"title", "start_time", "end_time", "existing_event_id", "attendees",
     "location"}

\* The solver pairs of an assignment whose actions differ / agree.
ActionDiffers(assignment) ==
    {k \in 1..Len(assignment) :
        actual_events[assignment[k][1] + 1].action
            # expected_events[assignment[k][2] + 1].action}

ActionAgrees(assignment) == (1..Len(assignment)) \ ActionDiffers(assignment)

\* Number of checks that fail over the pairs K of an assignment in
\* assertion mode.
AssertFailures(assignment, K) ==
    Cardinality({<<k, label>> \in K \X AssertLabels :
        AssertCheckFails(label, actual_events[assignment[k][1] + 1],
                         expected_events[assignment[k][2] + 1],
                         tolerance_level, calendar_context)})

\* In assertion mode: one "action" violation per solver pair whose actions
\* differ and nothing else for those pairs.
AssertActionShortCircuit(assignment) ==
    /\ Labelled(result.errors, "action") = Cardinality(ActionDiffers(assignment))
    /\ Len(result.errors)
       = Cardinality(ActionDiffers(assignment))
         + AssertFailures(assignment, ActionAgrees(assignment))

\* C22: when the actions of a matched pair differ, the pair contributes
\* exactly one reason, about the action, and no other check is evaluated for
\* it, in score_sample and in assert_extraction_result, at every level.
C22_ActionShortCircuit ==
    /\ ScoreReturned =>
         \A i \in 1..Len(result.per_event_details) :
            LET r == result.per_event_details[i]
            IN (r.classification = "fp" /\ r.expected_event # NoEvent
                    /\ r.actual_event.action # r.expected_event.action)
               => /\ Len(r.mismatch_reasons) = 1
                  /\ r.mismatch_reasons[1][1] = "action"
    /\ (AssertReturned /\ CountCheckPassed) =>
         AssertActionShortCircuit(SolverAssignment)

\* C22 witness: one pair in assertion mode whose actions differ and whose
\* title, times, attendees and location would fail too; one violation.
C22_Witness ==
    /\ AssertReturned
    /\ Len(actual_events) = 1 /\ Len(expected_events) = 1
    /\ actual_events[1].action # expected_events[1].action
    /\ AssertFailures(<<<<0, 0>>>>, {1}) >= 4
    /\ result.raised
    /\ Len(result.errors) = 1

\* In assertion mode: for every check, as many violations with its label as
\* solver pairs with equal actions for which the check fails.
AssertChecksAccumulate(assignment) ==
    \A label \in AssertLabels :
        Labelled(result.errors, label)
        = Cardinality({k \in ActionAgrees(assignment) :
              AssertCheckFails(label, actual_events[assignment[k][1] + 1],
                               expected_events[assignment[k][2] + 1],
                               tolerance_level, calendar_context)})

\* C23: for a matched pair with equal actions every check is evaluated
\* whatever failed before it, and every failure contributes its own reason:
\* title, start_time and end_time in score_sample; title, start_time,
\* end_time, existing id, attendees and location in assert_extraction_result.
C23_FailuresAccumulate ==
    /\ ScoreReturned =>
         \A i \in 1..Len(result.per_event_details) :
            LET r == result.per_event_details[i]
            IN (r.actual_event # NoEvent /\ r.expected_event # NoEvent
                    /\ r.actual_event.action = r.expected_event.action)
               => /\ \A label \in ScoreLabels :
                        Labelled(r.mismatch_reasons, label)
                        = IF ScoreCheckFails(label, r.actual_event,
                                             r.expected_event, tolerance_level)
                          THEN 1 ELSE 0
                  /\ Len(r.mismatch_reasons)
                     = Cardinality({label \in ScoreLabels :
                           ScoreCheckFails(label, r.actual_event,
                                           r.expected_event, tolerance_level)})
    /\ (AssertReturned /\ CountCheckPassed) =>
         AssertChecksAccumulate(SolverAssignment)

\* C23 witness: one pair with equal actions that fails all six checks of
\* assertion mode; six violations.
C23_Witness ==
    /\ AssertReturned
    /\ Len(actual_events) = 1 /\ Len(expected_events) = 1
    /\ actual_events[1].action = expected_events[1].action
    /\ AssertFailures(<<<<0, 0>>>>, {1}) = 6
    /\ Len(result.errors) = 6

\* ------------------------------------------------------------------------
\* Claims about the time functions (checked under SpecTime)
\* ------------------------------------------------------------------------
TimeCheckReturned ==
    /\ call \in {"_check_time_tolerance", "_assert_time_within_tolerance"}
    /\ returned

\* C24: a time check passes when the reference value is null, fails when
\* only the candidate value is null, fails when either value does not
\* parse, and otherwise fails iff |candidate - reference| is strictly greater
\* than the profile's time_tolerance; so for _check_time_tolerance and for
\* _assert_time_within_tolerance.
C24_TimeCheck ==
    TimeCheckReturned =>
        /\ ~result.raised
        /\ (result.value # <<>>)
              <=> TimeCheckFails(fn_args[1], fn_args[2],
                                 THRESHOLDS[tolerance_level].time_tolerance)

\* The pieces of a pair distance, from the two events.
ActionPart(a, e) == IF a.action = e.action THEN 0 ELSE 1000

TitlePart(a, e) == 100 - token_set_ratio(a.title, e.title)

TimePart(actual_iso, expected_iso) ==
    IF actual_iso = NULL /\ expected_iso = NULL THEN 0
    ELSE IF \/ actual_iso = NULL
            \/ expected_iso = NULL
            \/ ~fromisoformat(actual_iso).ok
            \/ ~fromisoformat(expected_iso).ok
    THEN 10000
    ELSE Abs(fromisoformat(actual_iso).minutes
             - fromisoformat(expected_iso).minutes)

\* C27: _time_distance returns 0 when both timestamps are null, 10000 when
\* exactly one is null or either does not parse, and otherwise their
\* absolute difference in minutes; _event_pair_distance is the sum of the
\* action distance (0 or 1000), the title distance (within 0..100) and the
\* time distance of the start times, never negative and independent of
\* end_time.
C27_Distances ==
    /\ (call = "_time_distance" /\ returned) =>
          /\ ~result.raised
          /\ result.value = TimePart(fn_args[1], fn_args[2])
    /\ (call = "_event_pair_distance" /\ returned) =>
          LET a == actual_events[1]
              e == expected_events[1]
          IN /\ ~result.raised
             /\ result.value = ActionPart(a, e) + TitlePart(a, e)
                               + TimePart(a.start_time, e.start_time)
             /\ TitlePart(a, e) \in 0..100
             /\ result.value >= 0
             /\ \A t, u \in TimestampPool :
                   _event_pair_distance([a EXCEPT !.end_time = t],
                                        [e EXCEPT !.end_time = u])
                   = result.value

\* ------------------------------------------------------------------------
\* Claim about the attendee check (checked under SpecAttendees)
\* ------------------------------------------------------------------------
\* The required substring occurs in the attendee name, letter case aside.
OccursIgnoringCase(required, attendee) ==
    \/ required = ""
    \/ <<required, attendee>> \in {<<"ALICE", "Alice">>, <<"Bob", "Bob Smith">>}

AttendeesReturned == call = "_assert_attendees_contain" /\ returned

\* C25: _assert_attendees_contain passes iff every required substring occurs,
\* case-insensitively, inside at least one attendee; an empty required list
\* always passes, a non-empty one against no attendees always fails.
C25_AttendeesContain ==
    AttendeesReturned =>
        LET actual_attendees == fn_args[1]
            required_substrings == fn_args[2]
        IN /\ (result = <<>>)
                 <=> \A r \in 1..Len(required_substrings) :
                        \E i \in 1..Len(actual_attendees) :
                            OccursIgnoringCase(required_substrings[r],
                                               actual_attendees[i])
           /\ required_substrings = <<>> => result = <<>>
           /\ (required_substrings # <<>> /\ actual_attendees = <<>>)
                 => result # <<>>

\* "ALICE" and "Bob" are required, and found in "Bob Smith" and "Alice".
C25_Witness ==
    /\ AttendeesReturned
    /\ fn_args = <<<<"Bob Smith", "Alice">>, <<"ALICE", "Bob">>>>
    /\ result = <<>>

\* ------------------------------------------------------------------------
\* Claims about the location check and the context times of a delete
\* (checked under SpecAssert)
\* ------------------------------------------------------------------------
\* The candidate and the reference of the k-th solver pair.
ActualOf(assignment, k) == actual_events[assignment[k][1] + 1]

ExpectedOf(assignment, k) == expected_events[assignment[k][2] + 1]

\* The title rule of assertion mode applied to two locations.
LocationFails(actual_location, expected_location) ==
    FuzzyTitleFails([title |-> actual_location], [title |-> expected_location],
                    tolerance_level)

\* A candidate without location has the empty string compared.
ComparedLocation(a) == IF a.location = NULL THEN "" ELSE a.location

LocationRule(assignment) ==
    LET pairs == ActionAgrees(assignment)
        specified == {k \in pairs : ExpectedOf(assignment, k).location # NULL}
    IN Labelled(result.errors, "location")
       = Cardinality({k \in specified :
             LocationFails(ComparedLocation(ActualOf(assignment, k)),
                           ExpectedOf(assignment, k).location)})

\* C26: the location check runs only for a reference that specifies a
\* location; it applies the fuzzy rule and the title_ratio_min of the title
\* check to the two locations, a null candidate location counting as the
\* empty string; a reference without location never yields a location
\* violation.
C26_LocationCheck ==
    (AssertReturned /\ CountCheckPassed) => LocationRule(SolverAssignment)

\* C26 witness: locations "lunch " and "Lunch" (ratio 80) at the moderate
\* level (title_ratio_min 80): no location violation.
C26_Witness ==
    /\ AssertReturned
    /\ Len(actual_events) = 1 /\ Len(expected_events) = 1
    /\ tolerance_level = "moderate"
    /\ actual_events[1].action = expected_events[1].action
    /\ actual_events[1].location = "lunch "
    /\ expected_events[1].location = "Lunch"
    /\ Labelled(result.errors, "location") = 0

\* A delete candidate names an entry of the calendar context.
NamesContextEntry(a) ==
    /\ a.action = "delete"
    /\ a.existing_event_id # <<>>
    /\ a.existing_event_id[1] \in 1..Len(calendar_context)

\* The times the start and end checks of a pair compare the candidate with.
ComparedStart(a, e) ==
    IF NamesContextEntry(a) THEN calendar_context[a.existing_event_id[1]].start
    ELSE e.start_time

ComparedEnd(a, e) ==
    IF NamesContextEntry(a) THEN calendar_context[a.existing_event_id[1]].end
    ELSE e.end_time

ContextTimesRule(assignment) ==
    LET pairs == ActionAgrees(assignment)
        tolerance == THRESHOLDS[tolerance_level].time_tolerance
    IN /\ Labelled(result.errors, "start_time")
          = Cardinality({k \in pairs :
                TimeCheckFails(ActualOf(assignment, k).start_time,
                               ComparedStart(ActualOf(assignment, k),
                                             ExpectedOf(assignment, k)),
                               tolerance)})
       /\ Labelled(result.errors, "end_time")
          = Cardinality({k \in pairs :
                TimeCheckFails(ActualOf(assignment, k).end_time,
                               ComparedEnd(ActualOf(assignment, k),
                                           ExpectedOf(assignment, k)),
                               tolerance)})

\* C28: for a matched pair whose candidate is a delete with a non-null
\* existing_event_id k and a calendar context of at least k entries, the
\* start and end checks compare the candidate with the start and end of the
\* k-th context entry (1-based); with an empty context, a null id or an id
\* out of range they compare with the reference's own times.
C28_DeleteContextTimes ==
    (AssertReturned /\ CountCheckPassed) => ContextTimesRule(SolverAssignment)

\* C28 witness: a delete at 14:01 with id 1 against a reference at 12:00 and
\* a context entry at 14:00, strict level: the start check passes although
\* the reference's own start is 121 minutes away.
C28_Witness ==
    /\ AssertReturned
    /\ Len(actual_events) = 1 /\ Len(expected_events) = 1
    /\ tolerance_level = "strict"
    /\ expected_events[1].action = "delete"
    /\ NamesContextEntry(actual_events[1])
    /\ TimeCheckFails(actual_events[1].start_time,
                      expected_events[1].start_time, 30)
    /\ Labelled(result.errors, "start_time") = 0

\* ------------------------------------------------------------------------
\* Claim about the solver's termination (checked under SpecSolverLive)
\* ------------------------------------------------------------------------
InSearch == locals.pc \in {"while", "backtrack"}

UsedColumns == {j \in 0..locals.n : locals.h.used[j]}

\* Within a row iteration: as many columns marked used as passes made, at
\* most max(n, m) passes, at most max(n, m) row iterations.
SolverProgress ==
    /\ locals.pc \in {"for", "while", "backtrack"} =>
          /\ locals.n = Max2(Len(cost_matrix), Len(cost_matrix[1]))
          /\ locals.i <= locals.n + 1
    /\ InSearch =>
          /\ locals.i <= locals.n
          /\ Cardinality(UsedColumns) = locals.passes
          /\ locals.passes <= locals.n
    /\ locals.pc = "backtrack" =>
          /\ locals.passes >= 1
          /\ locals.h.j0 \in 0..locals.n
          /\ locals.h.j0 # 0 => locals.h.p[locals.h.j0] = 0 \/ locals.h.used[locals.h.j0]

SolverReturned == call = "_hungarian_assignment" /\ returned

BacktrackEnded == locals.pc = "for" /\ locals.h.j0 = 0

\* C29: _hungarian_assignment terminates on every finite matrix: each of the
\* max(n, m) row iterations marks one more column used per pass of its
\* search and leaves the search after at most max(n, m) passes, and the
\* backtracking loop ends at column 0.
C29_Terminates ==
    /\ []SolverProgress
    /\ <>SolverReturned
    /\ (locals.pc = "backtrack") ~> BacktrackEnded

\* C29 witness: a 3 x 3 matrix whose last row needed three passes, returned.
C29_Witness ==
    /\ SolverReturned
    /\ locals.pc = "done"
    /\ Len(cost_matrix) = 3
    /\ Len(cost_matrix[1]) = 3
    /\ locals.passes = 3
    /\ Len(result) = 3

\* ------------------------------------------------------------------------
\* Claim about the retry decorator (checked under SpecRetry)
\* ------------------------------------------------------------------------
RetryEnded == call = "with_retry" /\ returned

\* Positions of the log: calls of the wrapped function, those that ended in
\* HTTP 401, calls of _refresh_credentials.
Invocations == {k \in 1..Len(locals.log) :
                   locals.log[k].kind \in {"return", "OSError", "HttpError"}}

Auth401s == {k \in 1..Len(locals.log) : locals.log[k] = HttpError(401)}

Refreshes == {k \in 1..Len(locals.log) :
                 locals.log[k] \in {Refreshed, RefreshFailed}}

First401 == CHOOSE k \in Auth401s : \A j \in Auth401s : k <= j

RefreshHasFailed == \E k \in Refreshes : locals.log[k] = RefreshFailed

\* The first 401 is followed by the refresh, when there is one to call, and
\* then, unless the refresh failed, by one more call of the wrapped function.
RetriedOnce ==
    Auth401s # {} =>
        /\ fn_args[2] => First401 + 1 \in Refreshes
        /\ ~fn_args[2] => Refreshes = {}
        /\ ~RefreshHasFailed => \E k \in Invocations : k > First401

\* C30: with_retry answers the first HTTP 401 of an invocation with a call of
\* _refresh_credentials (when the instance has one) and then one more call of
\* the wrapped function; the invocation ends with CalendarAuthError only
\* when the refresh fails or a second 401 occurs; the wrapped function is
\* called at most max_retries + 1 times.
C30_AuthRetry ==
    /\ call = "with_retry" => Cardinality(Invocations) <= fn_args[1] + 1
    /\ RetryEnded =>
          /\ RetriedOnce
          /\ (result.raised /\ result.exception = "CalendarAuthError")
                => (RefreshHasFailed \/ Cardinality(Auth401s) = 2)

====
